---------------------------- MODULE Spec2Model ----------------------------
(***************************************************************************)
(* A model of the coordinate-grid machinery of monai/transforms/          *)
(* transforms.py: AffineGrid, RandAffineGrid, RandDeformGrid, Resample,   *)
(* Affine, the randomized orchestrators RandAffine, Rand2DElastic and     *)
(* Rand3DElastic, and SpatialCrop.                                        *)
(*                                                                         *)
(* Representation.                                                         *)
(*  - Python None / an optional value is a tuple of length 0 or 1:        *)
(*    None == <<>>, a present value x is <<x>>.                            *)
(*  - A parameter group handed to AffineGrid (None, a scalar or a list)   *)
(*    is a record [kind, v].                                               *)
(*  - An array of shape (D+1, *spatial) is a record [shape, tensor, data] *)
(*    with data[c][n] the entry of component c at the n-th position in C  *)
(*    order, i.e. the array reshaped to (D+1, -1).                         *)
(*  - Coordinates are stored as integers in units of 1/2, so that the     *)
(*    centred grid of an even size (-0.5, 0.5) is exact; the homogeneous  *)
(*    row, 1.0, is therefore stored as 2.                                  *)
(*  - Angles are measured in quarter turns, so that sin and cos are       *)
(*    integers.                                                            *)
(***************************************************************************)
EXTENDS Integers, Sequences, FiniteSets, TLC

VARIABLES
    ag,       \* the AffineGrid object under test
    agRes,    \* the last AffineGrid.__call__: its arguments and its outcome
    rag,      \* the RandAffineGrid object under test
    ragRes,   \* the last RandAffineGrid.__call__
    inst,     \* the orchestrator instances, by instance id
    seeded,   \* per instance: the seed of the last set_random_state, or None
    hist,     \* per instance: the calls made since the last set_random_state
    last,     \* the last orchestrator call
    rdg,      \* the RandDeformGrid object under test
    rdgRes,   \* the last RandDeformGrid.__call__
    rsp,      \* the Resample object under test
    rspGrid,  \* the grid object the caller of Resample holds
    rspRes,   \* the calls made on the Resample object
    af,       \* the Affine object under test
    afRes,    \* the last Affine.__call__
    sc,       \* the SpatialCrop object under test, or the failure of its constructor
    scRes     \* the last SpatialCrop.__call__

vars == <<ag, agRes, rag, ragRes, inst, seeded, hist, last,
          rdg, rdgRes, rsp, rspGrid, rspRes, af, afRes, sc, scRes>>

-----------------------------------------------------------------------------
(* Bounds of the model *)

\* the largest extent of an image or grid along one axis
MaxDim == 2

\* the number of states of a draw source, and the resolution of one draw:
\* a draw is one of 0/RngMod, ..., (RngMod-1)/RngMod
RngMod == 8

\* the seeds set_random_state is given: 0..MaxSeed
MaxSeed == 1

\* the number of calls made on one object
MaxCalls == 2

-----------------------------------------------------------------------------
(* Python values *)

None == <<>>

Some(x) == <<x>>

PNone == [kind |-> "none", v |-> <<>>]

PScalar(x) == [kind |-> "scalar", v |-> <<x>>]

PSeq(s) == [kind |-> "seq", v |-> s]

\* bool(p) of a parameter group: None, 0 and an empty sequence are falsy
Truthy(p) ==
    CASE p.kind = "none" -> FALSE
      [] p.kind = "scalar" -> p.v[1] # 0
      [] p.kind = "seq" -> Len(p.v) > 0

\* monai.utils.misc.ensure_tuple: a non-sequence becomes a 1-tuple of itself
EnsureTuple(p) ==
    CASE p.kind = "none" -> <<None>>
      [] p.kind = "scalar" -> <<Some(p.v[1])>>
      [] p.kind = "seq" -> p.v

-----------------------------------------------------------------------------
(* Matrices: a matrix is a tuple of rows *)

RECURSIVE Prod(_, _, _)
\* the product of s[from..to]
Prod(s, from, to) == IF from > to THEN 1 ELSE s[from] * Prod(s, from + 1, to)

Eye(n) == [i \in 1..n |-> [j \in 1..n |-> IF i = j THEN 1 ELSE 0]]

RECURSIVE Dot(_, _, _, _)
\* the sum of a[k] * B[k][j] over k in 1..n: a row times the j-th column
Dot(a, B, j, n) == IF n = 0 THEN 0 ELSE a[n] * B[n][j] + Dot(a, B, j, n - 1)

RECURSIVE DotVec(_, _, _)
\* the sum of a[k] * x[k] over k in 1..n
DotVec(a, x, n) == IF n = 0 THEN 0 ELSE a[n] * x[n] + DotVec(a, x, n - 1)

MatMul(A, B) ==
    [i \in 1..Len(A) |-> [j \in 1..Len(B[1]) |-> Dot(A[i], B, j, Len(B))]]

MatVec(A, x) == [i \in 1..Len(A) |-> DotVec(A[i], x, Len(x))]

\* cos and sin of q quarter turns
Cos(q) == CASE q % 4 = 0 -> 1 [] q % 4 = 2 -> -1 [] OTHER -> 0

Sin(q) == CASE q % 4 = 1 -> 1 [] q % 4 = 3 -> -1 [] OTHER -> 0

\* the n-th entry of a parameter list, or dflt past its end
At(s, n, dflt) == IF n <= Len(s) THEN s[n] ELSE dflt

-----------------------------------------------------------------------------
(* The matrix builders of monai.transforms.utils *)

RotX(q) == << <<1, 0, 0, 0>>, <<0, Cos(q), -Sin(q), 0>>,
              <<0, Sin(q), Cos(q), 0>>, <<0, 0, 0, 1>> >>

RotY(q) == << <<Cos(q), 0, Sin(q), 0>>, <<0, 1, 0, 0>>,
              <<-Sin(q), 0, Cos(q), 0>>, <<0, 0, 0, 1>> >>

RotZ(q) == << <<Cos(q), -Sin(q), 0, 0>>, <<Sin(q), Cos(q), 0, 0>>,
              <<0, 0, 1, 0>>, <<0, 0, 0, 1>> >>

\* create_rotate: one angle in 2-D, up to three composed angles in 3-D.
\* It has no value for an empty angle list (the builder raises).
create_rotate(D, r) ==
    CASE D = 2 /\ Len(r) >= 1 ->
            << <<Cos(r[1]), -Sin(r[1]), 0>>, <<Sin(r[1]), Cos(r[1]), 0>>, <<0, 0, 1>> >>
      [] D = 3 /\ Len(r) = 1 -> RotX(r[1])
      [] D = 3 /\ Len(r) = 2 -> MatMul(RotX(r[1]), RotY(r[2]))
      [] D = 3 /\ Len(r) >= 3 -> MatMul(MatMul(RotX(r[1]), RotY(r[2])), RotZ(r[3]))

\* create_shear: missing coefficients are 0
create_shear(D, c) ==
    CASE D = 2 ->
            << <<1, At(c, 1, 0), 0>>, <<At(c, 2, 0), 1, 0>>, <<0, 0, 1>> >>
      [] D = 3 ->
            << <<1, At(c, 1, 0), At(c, 2, 0), 0>>,
               <<At(c, 3, 0), 1, At(c, 4, 0), 0>>,
               <<At(c, 5, 0), At(c, 6, 0), 1, 0>>,
               <<0, 0, 0, 1>> >>

\* create_translate: shift[i] goes to the last column of row i
create_translate(D, shift) ==
    [i \in 1..(D + 1) |->
        [j \in 1..(D + 1) |->
            IF i = j THEN 1
            ELSE IF j = D + 1 /\ i <= D THEN At(shift, i, 0)
            ELSE 0]]

\* create_scale: the diagonal of the factors, missing factors are 1
create_scale(D, f) ==
    [i \in 1..(D + 1) |->
        [j \in 1..(D + 1) |->
            IF i # j THEN 0
            ELSE IF i <= D THEN At(f, i, 1)
            ELSE 1]]

-----------------------------------------------------------------------------
(* The coordinate grid builder of monai.transforms.utils *)

NumPoints(shape) == Prod(shape, 1, Len(shape))

\* the index along axis a of the n-th position (n from 0) in C order
AxisIndex(shape, a, n) == (n \div Prod(shape, a + 1, Len(shape))) % shape[a]

\* create_grid with a spacing: along an axis of extent d the coordinates are
\* -(d-1)/2*s, ..., (d-1)/2*s; stored in units of 1/2
SpacedGrid(shape, spacing) ==
    [shape |-> shape,
     tensor |-> FALSE,
     data |-> [c \in 1..(Len(shape) + 1) |->
                 [n \in 1..NumPoints(shape) |->
                     IF c <= Len(shape)
                     THEN (2 * AxisIndex(shape, c, n - 1) - (shape[c] - 1)) * spacing[c]
                     ELSE 2]]]

create_grid(spatial_size) ==
    SpacedGrid(spatial_size, [a \in 1..Len(spatial_size) |-> 1])

-----------------------------------------------------------------------------
(* AffineGrid *)

\* AffineGrid.__init__ (device is left at its default, None)
AffineGrid(rotate_params, shear_params, translate_params, scale_params, as_tensor_output) ==
    [rotate_params |-> rotate_params,
     shear_params |-> shear_params,
     translate_params |-> translate_params,
     scale_params |-> scale_params,
     as_tensor_output |-> as_tensor_output]

\* ResolveGrid with the size tested first: a call without a size is refused
\* even when it brings a grid
ResolveGrid_SizeRequired(spatial_size, grid) ==
    IF spatial_size = None
    THEN [raised |-> "ValueError", grid |-> None]
    ELSE IF grid = None
         THEN [raised |-> "none", grid |-> Some(create_grid(spatial_size[1]))]
         ELSE [raised |-> "none", grid |-> grid]

\* the opening of AffineGrid.__call__: the grid to transform, or the error
ResolveGrid(spatial_size, grid) ==
    IF grid = None
    THEN IF spatial_size # None
         THEN [raised |-> "none", grid |-> Some(create_grid(spatial_size[1]))]
         ELSE [raised |-> "ValueError", grid |-> None]
    ELSE [raised |-> "none", grid |-> grid]

\* "if params: affine = affine @ factor": the factor is built only when the
\* group is truthy
RightMul(affine, params, factor) ==
    IF Truthy(params) THEN MatMul(affine, factor) ELSE affine

\* AffineGridMatrix with the last two factors exchanged: scale before translate
AffineGridMatrix_ScaleBeforeTranslate(self, spatial_dims) ==
    RightMul(
        RightMul(
            RightMul(
                RightMul(Eye(spatial_dims + 1),
                         self.rotate_params,
                         create_rotate(spatial_dims, self.rotate_params.v)),
                self.shear_params,
                create_shear(spatial_dims, self.shear_params.v)),
            self.scale_params,
            create_scale(spatial_dims, self.scale_params.v)),
        self.translate_params,
        create_translate(spatial_dims, self.translate_params.v))

\* AffineGridMatrix in which an absent scale group still contributes a factor:
\* the scaling by an empty factor list padded with 0 instead of 1
AffineGridMatrix_AbsentScaleFactor(self, spatial_dims) ==
    MatMul(
        RightMul(
            RightMul(
                RightMul(Eye(spatial_dims + 1),
                         self.rotate_params,
                         create_rotate(spatial_dims, self.rotate_params.v)),
                self.shear_params,
                create_shear(spatial_dims, self.shear_params.v)),
            self.translate_params,
            create_translate(spatial_dims, self.translate_params.v)),
        IF Truthy(self.scale_params)
        THEN create_scale(spatial_dims, self.scale_params.v)
        ELSE create_scale(spatial_dims, [i \in 1..spatial_dims |-> 0]))

\* the matrix AffineGrid.__call__ composes for a grid of spatial_dims axes
AffineGridMatrix(self, spatial_dims) ==
    RightMul(
        RightMul(
            RightMul(
                RightMul(Eye(spatial_dims + 1),
                         self.rotate_params,
                         create_rotate(spatial_dims, self.rotate_params.v)),
                self.shear_params,
                create_shear(spatial_dims, self.shear_params.v)),
            self.translate_params,
            create_translate(spatial_dims, self.translate_params.v)),
        self.scale_params,
        create_scale(spatial_dims, self.scale_params.v))

\* affine @ grid.reshape((grid.shape[0], -1)), reshaped back
ApplyAffine(affine, grid, as_tensor_output) ==
    [shape |-> grid.shape,
     tensor |-> as_tensor_output,
     data |-> MatMul(affine, grid.data)]

\* the rest of AffineGrid.__call__, r being what its opening resolved;
\* len(grid.shape) - 1 is the number of spatial axes, the length of the
\* shape held here
AffineGridApply(self, r) ==
    IF r.raised # "none"
    THEN [raised |-> r.raised, grid |-> None]
    ELSE [raised |-> "none",
          grid |-> Some(ApplyAffine(AffineGridMatrix(self, Len(r.grid[1].shape)),
                                    r.grid[1], self.as_tensor_output))]

\* AffineGrid.__call__: [raised, grid], grid being None when it raised
AffineGrid__call__(self, spatial_size, grid) ==
    AffineGridApply(self, ResolveGrid(spatial_size, grid))

-----------------------------------------------------------------------------
(* The inputs the model draws from *)

\* the spatial sizes: 2-D and 3-D, every extent in 1..MaxDim
SpatialSizes == [1..2 -> 1..MaxDim] \cup [1..3 -> 1..MaxDim]

RotateChoices == {PNone, PSeq(<<>>), PScalar(0), PScalar(1), PSeq(<<2, 1>>)}

ShearChoices == {PNone, PSeq(<<>>), PSeq(<<1>>), PSeq(<<0, 2>>)}

TranslateChoices == {PNone, PSeq(<<>>), PSeq(<<3>>), PSeq(<<1, 2>>)}

ScaleChoices == {PNone, PSeq(<<>>), PSeq(<<-1>>), PSeq(<<2, 3>>)}

\* a grid a caller may pass instead of a size: an identity grid, as an array
\* or as a tensor
GridArgs ==
    {[create_grid(s) EXCEPT !.tensor = t] : s \in SpatialSizes, t \in BOOLEAN}

\* the (spatial_size, grid) argument pairs of a call: neither, a size, a grid,
\* or both (the grid then being one of another shape than the size asks for)
CallArgs ==
    {<<None, None>>}
    \cup {<<Some(s), None>> : s \in SpatialSizes}
    \cup {<<None, Some(g)>> : g \in GridArgs}
    \cup {<<Some(s), Some(create_grid(<<s[2], s[1], 1>>))>> : s \in [1..2 -> 1..MaxDim]}

NotCalled == [called |-> FALSE]

-----------------------------------------------------------------------------
(* Specification SpecAG: AffineGrid.__call__ on every input *)

InitAG ==
    /\ ag \in {AffineGrid(r, s, t, z, o) :
                  r \in RotateChoices, s \in ShearChoices,
                  t \in TranslateChoices, z \in ScaleChoices, o \in BOOLEAN}
    /\ agRes = NotCalled
    /\ rag = None
    /\ ragRes = NotCalled
    /\ inst = <<>>
    /\ seeded = <<>>
    /\ hist = <<>>
    /\ last = NotCalled
    /\ rdg = None
    /\ rdgRes = NotCalled
    /\ rsp = None
    /\ rspGrid = None
    /\ rspRes = NotCalled
    /\ af = None
    /\ afRes = NotCalled
    /\ sc = None
    /\ scRes = NotCalled

AffineGridCall ==
    /\ ~agRes.called
    /\ \E args \in CallArgs :
          agRes' = [called |-> TRUE,
                    spatial_size |-> args[1],
                    grid |-> args[2],
                    ret |-> AffineGrid__call__(ag, args[1], args[2])]
    /\ UNCHANGED <<ag, rag, ragRes, inst, seeded, hist, last,
                 rdg, rdgRes, rsp, rspGrid, rspRes, af, afRes, sc, scRes>>

NextAG == AffineGridCall

SpecAG == InitAG /\ [][NextAG]_vars

-----------------------------------------------------------------------------
(* Claims about AffineGrid, checked under SpecAG *)

\* the grid the last AffineGrid call started from
AgInputGrid ==
    IF agRes.grid # None THEN agRes.grid[1] ELSE create_grid(agRes.spatial_size[1])

AgReturned == agRes.called /\ agRes.ret.raised = "none"

\* the n-th column of an array reshaped to (D+1, -1): one homogeneous point
Column(data, n) == [c \in 1..Len(data) |-> data[c][n]]

\* a group that is None or an empty sequence
Absent(p) == p.kind = "none" \/ (p.kind = "seq" /\ Len(p.v) = 0)

\* a point moved by the present groups one after the other: the scaling acts
\* on the point first, then the translation, the shear and last the rotation,
\* which is what right-multiplying in the sequence rotate, shear, translate,
\* scale does to a column vector
MovedPoint(self, D, x) ==
    LET z == IF Truthy(self.scale_params)
             THEN MatVec(create_scale(D, self.scale_params.v), x) ELSE x
        t == IF Truthy(self.translate_params)
             THEN MatVec(create_translate(D, self.translate_params.v), z) ELSE z
        s == IF Truthy(self.shear_params)
             THEN MatVec(create_shear(D, self.shear_params.v), t) ELSE t
    IN  IF Truthy(self.rotate_params)
        THEN MatVec(create_rotate(D, self.rotate_params.v), s) ELSE s

\* the same with the translation acting before the scaling
MovedPointOtherOrder(self, D, x) ==
    LET t == IF Truthy(self.translate_params)
             THEN MatVec(create_translate(D, self.translate_params.v), x) ELSE x
        z == IF Truthy(self.scale_params)
             THEN MatVec(create_scale(D, self.scale_params.v), t) ELSE t
        s == IF Truthy(self.shear_params)
             THEN MatVec(create_shear(D, self.shear_params.v), z) ELSE z
    IN  IF Truthy(self.rotate_params)
        THEN MatVec(create_rotate(D, self.rotate_params.v), s) ELSE s

\* C8: the grid AffineGrid returns is the input grid under the product
\* identity @ rotate @ shear @ translate @ scale of the present groups, in
\* that sequence, for every combination of present and absent groups: every
\* point of it is the input point scaled, then translated, then sheared, then
\* rotated.
C8_CompositionOrder ==
    AgReturned =>
        LET g == AgInputGrid
            out == agRes.ret.grid[1]
        IN  /\ out.shape = g.shape
            /\ Len(out.data) = Len(g.data)
            /\ \A n \in 1..NumPoints(g.shape) :
                  Column(out.data, n) = MovedPoint(ag, Len(g.data) - 1, Column(g.data, n))

\* C8 witness: a call with all four groups present whose result no other
\* ordering of translate and scale gives
C8_Witness ==
    /\ AgReturned
    /\ Truthy(ag.rotate_params) /\ Truthy(ag.shear_params)
    /\ Truthy(ag.translate_params) /\ Truthy(ag.scale_params)
    /\ LET g == AgInputGrid
       IN  \E n \in 1..NumPoints(g.shape) :
              Column(agRes.ret.grid[1].data, n)
                  # MovedPointOtherOrder(ag, Len(g.data) - 1, Column(g.data, n))

\* C9: an AffineGrid whose four groups are each None or an empty sequence,
\* called with a spatial size, returns the identity grid of create_grid for
\* that size.
C9_AbsentGroupsGiveIdentity ==
    (/\ agRes.called
     /\ Absent(ag.rotate_params) /\ Absent(ag.shear_params)
     /\ Absent(ag.translate_params) /\ Absent(ag.scale_params)
     /\ agRes.spatial_size # None /\ agRes.grid = None)
    => /\ agRes.ret.raised = "none"
       /\ agRes.ret.grid[1].shape = create_grid(agRes.spatial_size[1]).shape
       /\ agRes.ret.grid[1].data = create_grid(agRes.spatial_size[1]).data

\* C9 witness: a 3-D call with an empty group and a None group
C9_Witness ==
    /\ agRes.called
    /\ ag.rotate_params = PNone /\ ag.shear_params = PSeq(<<>>)
    /\ ag.translate_params = PSeq(<<>>) /\ ag.scale_params = PNone
    /\ agRes.spatial_size # None /\ agRes.grid = None
    /\ Len(agRes.spatial_size[1]) = 3
    /\ NumPoints(agRes.spatial_size[1]) > 1
    /\ agRes.ret.grid # None

\* C10: AffineGrid.__call__ with neither a spatial size nor a grid raises
\* ValueError and returns no grid; with a grid or a size it does not raise it.
C10_NeitherIsValueError ==
    agRes.called =>
        /\ (agRes.spatial_size = None /\ agRes.grid = None)
              => (agRes.ret.raised = "ValueError" /\ agRes.ret.grid = None)
        /\ (agRes.spatial_size # None \/ agRes.grid # None)
              => (agRes.ret.raised = "none" /\ agRes.ret.grid # None)

\* C10 witness: the call without a size and without a grid has raised
C10_Witness ==
    /\ agRes.called
    /\ agRes.spatial_size = None /\ agRes.grid = None
    /\ agRes.ret.raised = "ValueError"

-----------------------------------------------------------------------------
(* The draw source: numpy's RandomState, held by a Randomizable as self.R. *)
(* It is a deterministic generator: a state, stepped once per scalar draw;  *)
(* the draw is the new state, read as a fraction of RngMod in [0, 1).       *)

\* np.random.RandomState(seed)
RandomState(seed) == seed % RngMod

\* one step of the generator (a linear congruential step)
Advance(R) == (5 * R + 3) % RngMod

\* R.rand(): the numerator u of a draw u/RngMod in [0, 1)
Rand(R) == [R |-> Advance(R), u |-> Advance(R)]

\* R.uniform(low, high) = low + (high - low) * rand(), rounded down to the
\* integer lattice the model computes on
Uniform(R, low, high) ==
    [R |-> Advance(R), value |-> low + (((high - low) * Advance(R)) \div RngMod)]

\* Randomizable.set_random_state(seed): a fresh generator from the seed
SetRandomState(self, seed) == [self EXCEPT !.R = RandomState(seed)]

\* an entry of the log of a call: a draw, or a step of the call
Event(by, what, axis, value) == [by |-> by, what |-> what, axis |-> axis, value |-> value]

-----------------------------------------------------------------------------
(* RandAffineGrid *)

\* RandAffineGrid.__init__; R is the draw source the object starts with
RandAffineGrid(rotate_range, shear_range, translate_range, scale_range, as_tensor_output, R) ==
    [rotate_range |-> EnsureTuple(rotate_range),
     shear_range |-> EnsureTuple(shear_range),
     translate_range |-> EnsureTuple(translate_range),
     scale_range |-> EnsureTuple(scale_range),
     rotate_params |-> PNone,
     shear_params |-> PNone,
     translate_params |-> PNone,
     scale_params |-> PNone,
     as_tensor_output |-> as_tensor_output,
     R |-> R]

RECURSIVE DrawList_NoBase(_, _, _, _, _)
\* DrawList without the "+ 1.0" of the scale group: the bare uniform(-f, f)
DrawList_NoBase(R, range, k, base, what) ==
    IF k > Len(range) THEN [R |-> R, vals |-> <<>>, log |-> <<>>]
    ELSE IF range[k] = None THEN DrawList_NoBase(R, range, k + 1, base, what)
    ELSE LET d == Uniform(R, -range[k][1], range[k][1])
             rest == DrawList_NoBase(d.R, range, k + 1, base, what)
         IN  [R |-> rest.R,
              vals |-> <<d.value>> \o rest.vals,
              log |-> <<Event("RandAffineGrid", what, k, d.value)>> \o rest.log]

RECURSIVE DrawList(_, _, _, _, _)
\* [self.R.uniform(-f, f) + base for f in range if f is not None], from the
\* k-th entry on: the draw source after it, the list, and the draws made
DrawList(R, range, k, base, what) ==
    IF k > Len(range) THEN [R |-> R, vals |-> <<>>, log |-> <<>>]
    ELSE IF range[k] = None THEN DrawList(R, range, k + 1, base, what)
    ELSE LET d == Uniform(R, -range[k][1], range[k][1])
             rest == DrawList(d.R, range, k + 1, base, what)
         IN  [R |-> rest.R,
              vals |-> <<d.value + base>> \o rest.vals,
              log |-> <<Event("RandAffineGrid", what, k, d.value + base)>> \o rest.log]

\* "self.x_params = [...]": st, the object and the log so far, after the
\* draws dl of one group
Sampled(st, field, dl) ==
    [self |-> [st.self EXCEPT ![field] = PSeq(dl.vals), !.R = dl.R],
     log |-> st.log \o dl.log]

\* "if self.x_range: self.x_params = [...]" for one group
SampleGroup(st, range, field, base, what) ==
    IF Len(range) > 0
    THEN Sampled(st, field, DrawList(st.self.R, range, 1, base, what))
    ELSE st

\* RandAffineGrid.randomize: the object after it and the log of its draws
RandAffineGrid_randomize(self) ==
    SampleGroup(
        SampleGroup(
            SampleGroup(
                SampleGroup([self |-> self,
                             log |-> <<Event("RandAffineGrid", "randomize", 0, 0)>>],
                            self.rotate_range, "rotate_params", 0, "rotate"),
                self.shear_range, "shear_params", 0, "shear"),
            self.translate_range, "translate_params", 0, "translate"),
        self.scale_range, "scale_params", 1, "scale")

\* RandAffineGrid.__call__ after its self.randomize(), whose outcome is r
RandAffineGridBuild(r, spatial_size, grid) ==
    LET _affine_grid == AffineGrid(r.self.rotate_params, r.self.shear_params,
                                   r.self.translate_params, r.self.scale_params,
                                   r.self.as_tensor_output)
    IN  [self |-> r.self,
         built |-> _affine_grid,
         ret |-> AffineGrid__call__(_affine_grid, spatial_size, grid),
         log |-> r.log \o <<Event("RandAffineGrid", "AffineGrid", 0, 0)>>]

\* RandAffineGrid.__call__ without its self.randomize(): the grid is built
\* from the parameters the object already holds
RandAffineGrid__call___NoRandomize(self, spatial_size, grid) ==
    LET _affine_grid == AffineGrid(self.rotate_params, self.shear_params,
                                   self.translate_params, self.scale_params,
                                   self.as_tensor_output)
    IN  [self |-> self,
         built |-> _affine_grid,
         ret |-> AffineGrid__call__(_affine_grid, spatial_size, grid),
         log |-> <<Event("RandAffineGrid", "AffineGrid", 0, 0)>>]

\* RandAffineGrid.__call__: the object after it, the AffineGrid it built, what
\* that returned, and the log of the call
RandAffineGrid__call__(self, spatial_size, grid) ==
    RandAffineGridBuild(RandAffineGrid_randomize(self), spatial_size, grid)

-----------------------------------------------------------------------------
(* Specification SpecRAG: one RandAffineGrid, called repeatedly *)

\* the arguments of a RandAffineGrid call: a 2-D or 3-D size, or a grid
RagCallArgs ==
    {<<Some(<<1, 2>>), None>>, <<Some(<<2, 1, 2>>), None>>,
     <<None, Some(create_grid(<<2, 2>>))>>}

InitRAG ==
    /\ rag \in {RandAffineGrid(r, s, t, z, TRUE, R) :
                   r \in {PNone, PSeq(<<Some(4)>>)},
                   s \in {PSeq(<<>>), PSeq(<<Some(1), None, Some(4)>>)},
                   t \in {PNone, PSeq(<<None, Some(4)>>), PSeq(<<Some(4), Some(1)>>)},
                   z \in {PSeq(<<>>), PSeq(<<Some(0), Some(0)>>), PSeq(<<None, Some(1)>>)},
                   R \in 0..(RngMod - 1)}
    /\ ragRes = [called |-> FALSE, count |-> 0]
    /\ ag = None
    /\ agRes = NotCalled
    /\ inst = <<>>
    /\ seeded = <<>>
    /\ hist = <<>>
    /\ last = NotCalled
    /\ rdg = None
    /\ rdgRes = NotCalled
    /\ rsp = None
    /\ rspGrid = None
    /\ rspRes = NotCalled
    /\ af = None
    /\ afRes = NotCalled
    /\ sc = None
    /\ scRes = NotCalled

\* RandAffineGrid.__call__(spatial_size, grid)
RagCall ==
    /\ ragRes.count < MaxCalls
    /\ \E args \in RagCallArgs :
          \E c \in {RandAffineGrid__call__(rag, args[1], args[2])} :
              /\ rag' = c.self
              /\ ragRes' = [called |-> TRUE,
                            count |-> ragRes.count + 1,
                            spatial_size |-> args[1],
                            grid |-> args[2],
                            built |-> c.built,
                            ret |-> c.ret,
                            log |-> c.log]
    /\ UNCHANGED <<ag, agRes, inst, seeded, hist, last,
                 rdg, rdgRes, rsp, rspGrid, rspRes, af, afRes, sc, scRes>>

NextRAG == RagCall

SpecRAG == InitRAG /\ [][NextRAG]_vars

-----------------------------------------------------------------------------
(* Claims about RandAffineGrid, checked under SpecRAG *)

Groups == {"rotate", "shear", "translate", "scale"}

RangeOf(obj, what) ==
    CASE what = "rotate" -> obj.rotate_range
      [] what = "shear" -> obj.shear_range
      [] what = "translate" -> obj.translate_range
      [] what = "scale" -> obj.scale_range

ParamsOf(obj, what) ==
    CASE what = "rotate" -> obj.rotate_params
      [] what = "shear" -> obj.shear_params
      [] what = "translate" -> obj.translate_params
      [] what = "scale" -> obj.scale_params

\* the parameter value that leaves an axis as it is
IdentityOf(what) == IF what = "scale" THEN 1 ELSE 0

\* the draws of one group in a log, in the order they were made
DrawsOf(log, what) == SelectSeq(log, LAMBDA e : e.what = what)

ValuesOf(log, what) ==
    LET d == DrawsOf(log, what) IN [i \in 1..Len(d) |-> d[i].value]

\* the positions of the entries of a range that are not None
NonNoneAxes(range) == {k \in 1..Len(range) : range[k] # None}

\* the places of the steps of a call in its log
PlacesOf(log, what) == {i \in 1..Len(log) : log[i].what = what}

\* C5: every RandAffineGrid.__call__ runs randomize exactly once, before the
\* AffineGrid is built, and the parameters the AffineGrid is built with are
\* the ones drawn in that same call: one fresh draw for every entry of a
\* range that is not None, and None for a group whose range is empty.
C5_FreshParametersEveryCall ==
    ragRes.called =>
        /\ PlacesOf(ragRes.log, "randomize") = {1}
        /\ PlacesOf(ragRes.log, "AffineGrid") = {Len(ragRes.log)}
        /\ \A what \in Groups :
              IF Len(RangeOf(rag, what)) > 0
              THEN /\ ParamsOf(ragRes.built, what) = PSeq(ValuesOf(ragRes.log, what))
                   /\ Len(ValuesOf(ragRes.log, what))
                         = Cardinality(NonNoneAxes(RangeOf(rag, what)))
              ELSE ParamsOf(ragRes.built, what) = PNone
        /\ ragRes.ret = AffineGrid__call__(ragRes.built, ragRes.spatial_size, ragRes.grid)

\* C5 witness: a second call on the same object has drawn parameters
C5_Witness ==
    /\ ragRes.called
    /\ ragRes.count = 2
    /\ Len(ValuesOf(ragRes.log, "translate")) = 2
    /\ ragRes.built.translate_params = PSeq(ValuesOf(ragRes.log, "translate"))

\* C6: randomize draws one value for every entry f of a range that is not
\* None, in [-f, f] for rotate, shear and translate and in [1-f, 1+f] for
\* scale; with a scale range of (0, 0) every scale factor is exactly 1.
C6_SamplingLaw ==
    ragRes.called =>
        /\ \A what \in Groups :
              LET d == DrawsOf(ragRes.log, what)
                  range == RangeOf(rag, what)
              IN  /\ {d[i].axis : i \in 1..Len(d)} = NonNoneAxes(range)
                  /\ Len(d) = Cardinality(NonNoneAxes(range))
                  /\ \A i \in 1..Len(d) :
                        LET f == range[d[i].axis][1]
                        IN  /\ IdentityOf(what) - f <= d[i].value
                            /\ d[i].value <= IdentityOf(what) + f
        /\ rag.scale_range = <<Some(0), Some(0)>>
              => ragRes.built.scale_params = PSeq(<<1, 1>>)

\* C6 witness: a call with the scale range (0, 0) that also drew a rotation
\* and a translation other than 0
C6_Witness ==
    /\ ragRes.called
    /\ rag.scale_range = <<Some(0), Some(0)>>
    /\ ragRes.built.scale_params = PSeq(<<1, 1>>)
    /\ \E i \in 1..Len(ragRes.log) :
          ragRes.log[i].what = "rotate" /\ ragRes.log[i].value # 0
    /\ \E i \in 1..Len(ragRes.log) :
          ragRes.log[i].what = "translate" /\ ragRes.log[i].value # 0

\* the value drawn from the k-th entry of a group's range in a log
DrawnFrom(log, what, k) ==
    LET d == DrawsOf(log, what)
    IN  d[CHOOSE i \in 1..Len(d) : d[i].axis = k].value

\* C7: in the parameter list handed to the matrix builder, an axis whose
\* range entry is None is left untransformed, and the value drawn from the
\* k-th range entry is the parameter of the k-th axis.
C7_NoneAxisIsIdentity ==
    ragRes.called =>
        \A what \in Groups :
            \A k \in 1..Len(RangeOf(rag, what)) :
                At(ParamsOf(ragRes.built, what).v, k, IdentityOf(what))
                    = IF RangeOf(rag, what)[k] = None
                      THEN IdentityOf(what)
                      ELSE DrawnFrom(ragRes.log, what, k)

-----------------------------------------------------------------------------
(* Array draws, the control grid, and the library filters *)

RECURSIVE Stream(_, _)
\* `first`, the next h states of a draw source, followed by the n - h states
\* after them
StreamAfter(first, h, n) == first \o Stream(first[h], n - h)

\* the next n states of a draw source
Stream(R, n) ==
    IF n = 0 THEN <<>>
    ELSE IF n = 1 THEN <<Advance(R)>>
    ELSE StreamAfter(Stream(R, n \div 2), n \div 2, n)

\* R.normal(size=...) of n entries: standard normal draws, on the integer
\* lattice and centred on 0
NormalArray(R, n) ==
    LET st == Stream(R, n)
    IN  [R |-> IF n = 0 THEN R ELSE st[n],
         vals |-> [i \in 1..n |-> st[i] - (RngMod \div 2)]]

\* R.uniform(low, high, size) of n entries
UniformArray(R, n, low, high) ==
    LET st == Stream(R, n)
    IN  [R |-> IF n = 0 THEN R ELSE st[n],
         vals |-> [i \in 1..n |-> low + (((high - low) * st[i]) \div RngMod)]]

\* an array of shape (rows, n) from its entries in C order
Rows(vals, rows, n) == [c \in 1..rows |-> [i \in 1..n |-> vals[(c - 1) * n + i]]]

\* create_control_grid: a grid of the given spacing that covers the image
\* with a margin; its extent along an axis of size d and spacing sp
ControlExtent(d, sp) ==
    IF d % 2 = 0
    THEN ((d - 1 + sp + 2 * sp - 1) \div (2 * sp)) * 2 + 2
    ELSE ((d - 1 + 2 * sp - 1) \div (2 * sp)) * 2 + 3

create_control_grid(spatial_shape, spacing) ==
    SpacedGrid([a \in 1..Len(spatial_shape) |-> ControlExtent(spatial_shape[a], spacing[a])],
               spacing)

\* the flat position (from 1) in `shape` of the multi-index idx (from 0)
RECURSIVE FlatIndex(_, _, _)
FlatIndex(shape, idx, a) ==
    IF a > Len(shape) THEN 1
    ELSE idx[a] * Prod(shape, a + 1, Len(shape)) + FlatIndex(shape, idx, a + 1)

\* torch.nn.functional.interpolate(grid[None], spatial_size, align_corners=False):
\* the grid resampled to spatial_size.  The cubic weights are not modelled:
\* every target position takes the source sample its centre falls on.
Interpolate(grid, spatial_size) ==
    [shape |-> spatial_size,
     tensor |-> grid.tensor,
     data |-> [c \in 1..Len(grid.data) |->
                 [n \in 1..NumPoints(spatial_size) |->
                     grid.data[c][FlatIndex(grid.shape,
                         [a \in 1..Len(spatial_size) |->
                             ((2 * AxisIndex(spatial_size, a, n - 1) + 1) * grid.shape[a])
                                 \div (2 * spatial_size[a])],
                         1)]]]]

\* one pass of a smoothing kernel along axis a, zero outside the array
\* (mode='constant', cval=0).  The Gaussian is cut to three taps with the
\* integer weights sigma, sigma + 1, sigma.
FilterAxis(field, shape, a, sigma) ==
    LET stride == Prod(shape, a + 1, Len(shape))
    IN  [n \in 1..Len(field) |->
            LET i == AxisIndex(shape, a, n - 1)
            IN  (sigma + 1) * field[n]
                + (IF i > 0 THEN sigma * field[n - stride] ELSE 0)
                + (IF i < shape[a] - 1 THEN sigma * field[n + stride] ELSE 0)]

RECURSIVE gaussian_filter(_, _, _, _)
\* scipy.ndimage gaussian_filter: the passes along the axes a..D, in turn
gaussian_filter(field, shape, a, sigma) ==
    IF a > Len(shape) THEN field
    ELSE gaussian_filter(FilterAxis(field, shape, a, sigma), shape, a + 1, sigma)

-----------------------------------------------------------------------------
(* RandDeformGrid *)

\* RandDeformGrid.__init__; random_offset starts as the scalar 0.0, held
\* here as the empty array
RandDeformGrid(spacing, magnitude_range, as_tensor_output, R) ==
    [spacing |-> spacing,
     magnitude |-> magnitude_range,
     rand_mag |-> 1,
     as_tensor_output |-> as_tensor_output,
     random_offset |-> <<>>,
     R |-> R]

\* RandDeformGrid.randomize(grid_size)
RandDeformGrid_randomize(self, grid_size) ==
    LET n == NumPoints(grid_size)
        off == NormalArray(self.R, Len(grid_size) * n)
        mag == Uniform(off.R, self.magnitude[1], self.magnitude[2])
    IN  [self |-> [self EXCEPT !.random_offset = Rows(off.vals, Len(grid_size), n),
                               !.rand_mag = mag.value,
                               !.R = mag.R],
         log |-> <<Event("RandDeformGrid", "random_offset", 0, Len(grid_size) * n),
                   Event("RandDeformGrid", "rand_mag", 0, mag.value)>>]

\* RandDeformGridAdd with the offsets added to every row of the control
\* grid: the homogeneous row is moved by the offsets of the last axis
RandDeformGridAdd_AllRows(self, spatial_size, control_grid, r) ==
    [self |-> r.self,
     grid |-> [shape |-> control_grid.shape,
               tensor |-> self.as_tensor_output,
               data |-> [c \in 1..Len(control_grid.data) |->
                           [n \in 1..NumPoints(control_grid.shape) |->
                               control_grid.data[c][n]
                                   + 2 * r.self.rand_mag
                                       * r.self.random_offset[
                                             IF c <= Len(spatial_size) THEN c
                                             ELSE Len(spatial_size)][n]]]],
     log |-> r.log]

\* "control_grid[:len(spatial_size)] += self.rand_mag * self.random_offset":
\* the offsets, in pixels, are added to the leading rows of the control grid,
\* which is held in units of 1/2; r is the outcome of self.randomize
RandDeformGridAdd(self, spatial_size, control_grid, r) ==
    [self |-> r.self,
     grid |-> [shape |-> control_grid.shape,
               tensor |-> self.as_tensor_output,
               data |-> [c \in 1..Len(control_grid.data) |->
                           IF c <= Len(spatial_size)
                           THEN [n \in 1..NumPoints(control_grid.shape) |->
                                    control_grid.data[c][n]
                                        + 2 * r.self.rand_mag * r.self.random_offset[c][n]]
                           ELSE control_grid.data[c]]],
     log |-> r.log]

\* RandDeformGrid.__call__ from its self.randomize(...) on
RandDeformGridOffset(self, spatial_size, control_grid) ==
    RandDeformGridAdd(self, spatial_size, control_grid,
                      RandDeformGrid_randomize(self, control_grid.shape))

\* RandDeformGrid.__call__(spatial_size)
RandDeformGrid__call__(self, spatial_size) ==
    RandDeformGridOffset(self, spatial_size,
                         create_control_grid(spatial_size, self.spacing))

-----------------------------------------------------------------------------
(* Resample: the object the orchestrators hold *)

\* Resample.__init__
Resample(padding_mode, as_tensor_output) ==
    [padding_mode |-> padding_mode, as_tensor_output |-> as_tensor_output]

-----------------------------------------------------------------------------
(* The randomized orchestrators *)

\* self.R.rand() < self.prob, prob being held in percent
DoTransform(u, prob) == u * 100 < prob * RngMod

\* the outcome of an orchestrator call: the object after it, the grid handed
\* to the resampler, whether the call raised, and the log of the call
Outcome(self, by, grid, raised, log) ==
    [self |-> self, grid |-> grid, raised |-> raised,
     log |-> log \o <<Event(by, "resample", 0, 0)>>]

\* RandAffine.__init__; R and Rg are the draw sources the object and its
\* RandAffineGrid start with
RandAffine(prob, rotate_range, shear_range, translate_range, scale_range, padding_mode, as_tensor_output, R, Rg) ==
    [kind |-> "RandAffine",
     rand_affine_grid |-> RandAffineGrid(rotate_range, shear_range, translate_range,
                                         scale_range, TRUE, Rg),
     resampler |-> Resample(padding_mode, as_tensor_output),
     do_transform |-> FALSE,
     prob |-> prob,
     R |-> R]

\* RandAffine.set_random_state(seed)
RandAffine_set_random_state(self, seed) ==
    SetRandomState([self EXCEPT !.rand_affine_grid = SetRandomState(@, seed)], seed)

\* RandAffine.randomize with <= for <
RandAffine_randomize_Leq(self) ==
    LET d == Rand(self.R)
    IN  [self |-> [self EXCEPT !.do_transform = (d.u * 100 <= self.prob * RngMod),
                               !.R = d.R],
         log |-> <<Event("RandAffine", "do_transform", 0, d.u)>>]

\* RandAffine.randomize
RandAffine_randomize(self) ==
    LET d == Rand(self.R)
    IN  [self |-> [self EXCEPT !.do_transform = DoTransform(d.u, self.prob),
                               !.R = d.R],
         log |-> <<Event("RandAffine", "do_transform", 0, d.u)>>]

\* "grid = self.rand_affine_grid(spatial_size=spatial_size)" and the return:
\* r is the outcome of self.randomize(), g that of the RandAffineGrid call
RandAffineTransformed(r, g) ==
    Outcome([r.self EXCEPT !.rand_affine_grid = g.self], "RandAffine",
            g.ret.grid[1], g.ret.raised, r.log \o g.log)

\* RandAffine.__call__ after its self.randomize(), whose outcome is r
RandAffineBranch(r, spatial_size) ==
    IF r.self.do_transform
    THEN RandAffineTransformed(
             r, RandAffineGrid__call__(r.self.rand_affine_grid, Some(spatial_size), None))
    ELSE Outcome(r.self, "RandAffine", create_grid(spatial_size), "none",
                 r.log \o <<Event("RandAffine", "create_grid", 0, 0)>>)

\* RandAffine.__call__ that builds the random grid before it looks at the
\* decision, and drops it when the decision is false
RandAffine__call___EagerGrid(self, img, spatial_size, mode) ==
    LET r == RandAffine_randomize(self)
        g == RandAffineGrid__call__(r.self.rand_affine_grid, Some(spatial_size), None)
    IN  IF r.self.do_transform
        THEN Outcome([r.self EXCEPT !.rand_affine_grid = g.self], "RandAffine",
                     g.ret.grid[1], g.ret.raised, r.log \o g.log)
        ELSE Outcome([r.self EXCEPT !.rand_affine_grid = g.self], "RandAffine",
                     create_grid(spatial_size), "none",
                     r.log \o g.log \o <<Event("RandAffine", "create_grid", 0, 0)>>)

\* RandAffine.__call__
RandAffine__call__(self, img, spatial_size, mode) ==
    RandAffineBranch(RandAffine_randomize(self), spatial_size)

\* Rand2DElastic.__init__; R, Rd and Rg are the draw sources the object, its
\* RandDeformGrid and its RandAffineGrid start with
Rand2DElastic(spacing, magnitude_range, prob, rotate_range, shear_range, translate_range, scale_range, padding_mode, as_tensor_output, R, Rd, Rg) ==
    [kind |-> "Rand2DElastic",
     deform_grid |-> RandDeformGrid(spacing, magnitude_range, TRUE, Rd),
     rand_affine_grid |-> RandAffineGrid(rotate_range, shear_range, translate_range,
                                         scale_range, TRUE, Rg),
     resampler |-> Resample(padding_mode, as_tensor_output),
     prob |-> prob,
     do_transform |-> FALSE,
     R |-> R]

\* Rand2DElastic.set_random_state(seed)
Rand2DElastic_set_random_state(self, seed) ==
    SetRandomState([self EXCEPT !.deform_grid = SetRandomState(@, seed),
                                !.rand_affine_grid = SetRandomState(@, seed)], seed)

\* Rand2DElastic.randomize
Rand2DElastic_randomize(self) ==
    LET d == Rand(self.R)
    IN  [self |-> [self EXCEPT !.do_transform = DoTransform(d.u, self.prob),
                               !.R = d.R],
         log |-> <<Event("Rand2DElastic", "do_transform", 0, d.u)>>]

\* the interpolation of the transformed control grid and the return: r, dg
\* and g are the outcomes of self.randomize(), self.deform_grid(...) and
\* self.rand_affine_grid(...)
Rand2DElasticInterpolated(r, dg, g, spatial_size) ==
    Outcome([r.self EXCEPT !.deform_grid = dg.self, !.rand_affine_grid = g.self],
            "Rand2DElastic",
            Interpolate(g.ret.grid[1], spatial_size), g.ret.raised,
            r.log \o dg.log \o g.log \o <<Event("Rand2DElastic", "interpolate", 0, 0)>>)

\* "grid = self.rand_affine_grid(grid=grid)" on the deformed control grid
Rand2DElasticTransformed(r, dg, spatial_size) ==
    Rand2DElasticInterpolated(
        r, dg, RandAffineGrid__call__(r.self.rand_affine_grid, None, Some(dg.grid)),
        spatial_size)

\* Rand2DElasticBranch with the deformation grid drawn whatever the
\* decision, and used only when it is true
Rand2DElasticBranch_AlwaysDeforms(r, spatial_size) ==
    IF r.self.do_transform
    THEN Rand2DElasticTransformed(
             r, RandDeformGrid__call__(r.self.deform_grid, spatial_size), spatial_size)
    ELSE Outcome([r.self EXCEPT !.deform_grid =
                     RandDeformGrid__call__(r.self.deform_grid, spatial_size).self],
                 "Rand2DElastic", create_grid(spatial_size), "none",
                 r.log \o RandDeformGrid__call__(r.self.deform_grid, spatial_size).log
                       \o <<Event("Rand2DElastic", "create_grid", 0, 0)>>)

\* Rand2DElastic.__call__ after its self.randomize(), whose outcome is r
Rand2DElasticBranch(r, spatial_size) ==
    IF r.self.do_transform
    THEN Rand2DElasticTransformed(
             r, RandDeformGrid__call__(r.self.deform_grid, spatial_size), spatial_size)
    ELSE Outcome(r.self, "Rand2DElastic", create_grid(spatial_size), "none",
                 r.log \o <<Event("Rand2DElastic", "create_grid", 0, 0)>>)

\* Rand2DElastic.__call__
Rand2DElastic__call__(self, img, spatial_size, mode) ==
    Rand2DElasticBranch(Rand2DElastic_randomize(self), spatial_size)

\* Rand3DElastic.__init__; rand_offset starts as None, the empty array here
Rand3DElastic(sigma_range, magnitude_range, prob, rotate_range, shear_range, translate_range, scale_range, padding_mode, as_tensor_output, R, Rg) ==
    [kind |-> "Rand3DElastic",
     rand_affine_grid |-> RandAffineGrid(rotate_range, shear_range, translate_range,
                                         scale_range, TRUE, Rg),
     resampler |-> Resample(padding_mode, as_tensor_output),
     sigma_range |-> sigma_range,
     magnitude_range |-> magnitude_range,
     prob |-> prob,
     do_transform |-> FALSE,
     rand_offset |-> <<>>,
     magnitude |-> 1,
     sigma |-> 1,
     R |-> R]

\* Rand3DElastic.set_random_state that reseeds the object's own draw source
\* and leaves the one of its RandAffineGrid as it is
Rand3DElastic_set_random_state_OwnOnly(self, seed) == SetRandomState(self, seed)

\* Rand3DElastic.set_random_state(seed)
Rand3DElastic_set_random_state(self, seed) ==
    SetRandomState([self EXCEPT !.rand_affine_grid = SetRandomState(@, seed)], seed)

\* "self.do_transform = self.R.rand() < self.prob"
Rand3DElasticDrawDecision(self) ==
    LET d == Rand(self.R)
    IN  [self |-> [self EXCEPT !.do_transform = DoTransform(d.u, self.prob), !.R = d.R],
         log |-> <<Event("Rand3DElastic", "do_transform", 0, d.u)>>]

\* "self.rand_offset = self.R.uniform(-1., 1., [3] + list(grid_size))"
Rand3DElasticDrawOffset(st, grid_size) ==
    LET off == UniformArray(st.self.R, 3 * NumPoints(grid_size), -1, 1)
    IN  [self |-> [st.self EXCEPT !.rand_offset = Rows(off.vals, 3, NumPoints(grid_size)),
                                  !.R = off.R],
         log |-> Append(st.log, Event("Rand3DElastic", "rand_offset", 0,
                                      3 * NumPoints(grid_size)))]

\* "self.magnitude = self.R.uniform(self.magnitude_range[0], self.magnitude_range[1])"
Rand3DElasticDrawMagnitude(st) ==
    LET mag == Uniform(st.self.R, st.self.magnitude_range[1], st.self.magnitude_range[2])
    IN  [self |-> [st.self EXCEPT !.magnitude = mag.value, !.R = mag.R],
         log |-> Append(st.log, Event("Rand3DElastic", "magnitude", 0, mag.value))]

\* "self.sigma = self.R.uniform(self.sigma_range[0], self.sigma_range[1])"
Rand3DElasticDrawSigma(st) ==
    LET sig == Uniform(st.self.R, st.self.sigma_range[1], st.self.sigma_range[2])
    IN  [self |-> [st.self EXCEPT !.sigma = sig.value, !.R = sig.R],
         log |-> Append(st.log, Event("Rand3DElastic", "sigma", 0, sig.value))]

\* "if self.do_transform: self.rand_offset = ..."
Rand3DElasticOffsetIfDo(st, grid_size) ==
    IF st.self.do_transform THEN Rand3DElasticDrawOffset(st, grid_size) ELSE st

\* the magnitude and sigma draws moved under "if self.do_transform"
Rand3DElasticAllIfDo(st, grid_size) ==
    IF st.self.do_transform
    THEN Rand3DElasticDrawSigma(
             Rand3DElasticDrawMagnitude(Rand3DElasticDrawOffset(st, grid_size)))
    ELSE st

\* Rand3DElastic.randomize with the magnitude and sigma draws moved under
\* "if self.do_transform"
Rand3DElastic_randomize_DrawsInBranch(self, grid_size) ==
    Rand3DElasticAllIfDo(Rand3DElasticDrawDecision(self), grid_size)

\* Rand3DElastic.randomize(grid_size)
Rand3DElastic_randomize(self, grid_size) ==
    Rand3DElasticDrawSigma(
        Rand3DElasticDrawMagnitude(
            Rand3DElasticOffsetIfDo(Rand3DElasticDrawDecision(self), grid_size)))

\* "grid[i] += gaussian_filter(self.rand_offset[i], self.sigma, mode='constant',
\* cval=0) * self.magnitude" for i in range(3): the smoothed offsets, in
\* pixels, are added to the three coordinate rows of the identity grid, which
\* is held in units of 1/2
Rand3DElasticMoved(self, grid, spatial_size) ==
    [grid EXCEPT !.data =
        [c \in 1..Len(grid.data) |->
            IF c <= 3
            THEN [n \in 1..NumPoints(spatial_size) |->
                     grid.data[c][n]
                         + 2 * gaussian_filter(self.rand_offset[c], spatial_size, 1,
                                               self.sigma)[n] * self.magnitude]
            ELSE grid.data[c]]]

\* "grid = self.rand_affine_grid(grid=grid)" and the return: r is the outcome
\* of self.randomize(...), g that of the RandAffineGrid call
Rand3DElasticTransformed(r, g) ==
    Outcome([r.self EXCEPT !.rand_affine_grid = g.self], "Rand3DElastic",
            g.ret.grid[1], g.ret.raised,
            r.log \o <<Event("Rand3DElastic", "create_grid", 0, 0)>> \o g.log)

\* Rand3DElastic.__call__ after its self.randomize(...), whose outcome is r
Rand3DElasticBranch(r, grid, spatial_size) ==
    IF r.self.do_transform
    THEN Rand3DElasticTransformed(
             r, RandAffineGrid__call__(r.self.rand_affine_grid, None,
                                       Some(Rand3DElasticMoved(r.self, grid, spatial_size))))
    ELSE Outcome(r.self, "Rand3DElastic", grid, "none",
                 r.log \o <<Event("Rand3DElastic", "create_grid", 0, 0)>>)

\* Rand3DElastic.__call__
Rand3DElastic__call__(self, img, spatial_size, mode) ==
    Rand3DElasticBranch(Rand3DElastic_randomize(self, spatial_size),
                        create_grid(spatial_size), spatial_size)

-----------------------------------------------------------------------------
(* Specifications Spec and SpecPair: the orchestrators, reseeded and called *)

\* prob, in percent: never, the default 0.1, every other time, always
ProbChoices == {0, 10, 50, 100}

\* the range settings of an orchestrator: (rotate, shear, translate, scale)
RangeSettings ==
    {<<PNone, PNone, PNone, PNone>>,
     <<PSeq(<<Some(4)>>), PNone, PSeq(<<Some(4), Some(4)>>), PSeq(<<Some(1)>>)>>,
     <<PNone, PSeq(<<Some(4), Some(1)>>), PScalar(4), PNone>>}

\* a draw source nobody has seeded: np.random.RandomState() seeds itself
\* from the system's entropy
Unseeded == {RandomState(e) : e \in 0..MaxSeed}

RandAffines ==
    {RandAffine(p, rs[1], rs[2], rs[3], rs[4], "zeros", TRUE, R, Rg) :
        p \in ProbChoices, rs \in RangeSettings, R \in Unseeded, Rg \in Unseeded}

Rand2DElastics ==
    {Rand2DElastic(<<2, 2>>, <<1, 3>>, p, rs[1], rs[2], rs[3], rs[4],
                   "zeros", FALSE, R, Rd, Rg) :
        p \in ProbChoices, rs \in RangeSettings,
        R \in Unseeded, Rd \in Unseeded, Rg \in Unseeded}

Rand3DElastics ==
    {Rand3DElastic(<<1, 3>>, <<1, 4>>, p, rs[1], rs[2], rs[3], rs[4],
                   "zeros", FALSE, R, Rg) :
        p \in ProbChoices, rs \in RangeSettings, R \in Unseeded, Rg \in Unseeded}

\* an image of shape (1, *shape): one channel, its values in C order
Image(shape) == [shape |-> shape, data |-> <<[n \in 1..NumPoints(shape) |-> n]>>]

\* the (img, spatial_size, mode) a transform of the given kind is called with
Inputs(kind) ==
    IF kind = "Rand3DElastic"
    THEN {<<Image(<<2, 2, 2>>), <<1, 1, 2>>, "bilinear">>,
          <<Image(<<2, 2, 2>>), <<2, 1, 2>>, "nearest">>}
    ELSE {<<Image(<<2, 2>>), <<1, 2>>, "bilinear">>,
          <<Image(<<2, 2>>), <<2, 2>>, "nearest">>}

\* one instance, of any of the three kinds
Init ==
    /\ inst \in [{1} -> RandAffines \cup Rand2DElastics \cup Rand3DElastics]
    /\ seeded = [i \in {1} |-> None]
    /\ hist = [i \in {1} |-> <<>>]
    /\ last = NotCalled
    /\ ag = None
    /\ agRes = NotCalled
    /\ rag = None
    /\ ragRes = NotCalled
    /\ rdg = None
    /\ rdgRes = NotCalled
    /\ rsp = None
    /\ rspGrid = None
    /\ rspRes = NotCalled
    /\ af = None
    /\ afRes = NotCalled
    /\ sc = None
    /\ scRes = NotCalled

\* the bookkeeping of a call of instance i with outcome c
Called(i, c, img, spatial_size, mode) ==
    /\ inst' = [inst EXCEPT ![i] = c.self]
    /\ hist' = [hist EXCEPT ![i] =
                   Append(@, [img |-> img, spatial_size |-> spatial_size, mode |-> mode,
                              resampled |-> <<img, c.grid, mode>>])]
    /\ last' = [called |-> TRUE, id |-> i, before |-> inst[i],
                img |-> img, spatial_size |-> spatial_size, mode |-> mode,
                grid |-> c.grid, raised |-> c.raised, log |-> c.log]
    /\ UNCHANGED <<seeded, ag, agRes, rag, ragRes,
                 rdg, rdgRes, rsp, rspGrid, rspRes, af, afRes, sc, scRes>>

\* the bookkeeping of a set_random_state(seed) of instance i, which is now obj
Reseeded(i, obj, seed) ==
    /\ inst' = [inst EXCEPT ![i] = obj]
    /\ seeded' = [seeded EXCEPT ![i] = Some(seed)]
    /\ hist' = [hist EXCEPT ![i] = <<>>]
    /\ last' = NotCalled
    /\ UNCHANGED <<ag, agRes, rag, ragRes,
                 rdg, rdgRes, rsp, rspGrid, rspRes, af, afRes, sc, scRes>>

\* set_random_state(seed) of instance i
RandAffineSetRandomStateOf(i) ==
    /\ inst[i].kind = "RandAffine"
    /\ \E seed \in 0..MaxSeed :
          Reseeded(i, RandAffine_set_random_state(inst[i], seed), seed)

Rand2DElasticSetRandomStateOf(i) ==
    /\ inst[i].kind = "Rand2DElastic"
    /\ \E seed \in 0..MaxSeed :
          Reseeded(i, Rand2DElastic_set_random_state(inst[i], seed), seed)

Rand3DElasticSetRandomStateOf(i) ==
    /\ inst[i].kind = "Rand3DElastic"
    /\ \E seed \in 0..MaxSeed :
          Reseeded(i, Rand3DElastic_set_random_state(inst[i], seed), seed)

\* __call__(img, spatial_size, mode) of instance i
RandAffineCallOf(i) ==
    /\ inst[i].kind = "RandAffine"
    /\ Len(hist[i]) < MaxCalls
    /\ \E in \in Inputs("RandAffine") :
          Called(i, RandAffine__call__(inst[i], in[1], in[2], in[3]),
                 in[1], in[2], in[3])

Rand2DElasticCallOf(i) ==
    /\ inst[i].kind = "Rand2DElastic"
    /\ Len(hist[i]) < MaxCalls
    /\ \E in \in Inputs("Rand2DElastic") :
          Called(i, Rand2DElastic__call__(inst[i], in[1], in[2], in[3]),
                 in[1], in[2], in[3])

Rand3DElasticCallOf(i) ==
    /\ inst[i].kind = "Rand3DElastic"
    /\ Len(hist[i]) < MaxCalls
    /\ \E in \in Inputs("Rand3DElastic") :
          Called(i, Rand3DElastic__call__(inst[i], in[1], in[2], in[3]),
                 in[1], in[2], in[3])

RandAffineSetRandomState == \E i \in DOMAIN inst : RandAffineSetRandomStateOf(i)

Rand2DElasticSetRandomState == \E i \in DOMAIN inst : Rand2DElasticSetRandomStateOf(i)

Rand3DElasticSetRandomState == \E i \in DOMAIN inst : Rand3DElasticSetRandomStateOf(i)

RandAffineCall == \E i \in DOMAIN inst : RandAffineCallOf(i)

Rand2DElasticCall == \E i \in DOMAIN inst : Rand2DElasticCallOf(i)

Rand3DElasticCall == \E i \in DOMAIN inst : Rand3DElasticCallOf(i)

Next ==
    \/ RandAffineSetRandomState
    \/ Rand2DElasticSetRandomState
    \/ Rand3DElasticSetRandomState
    \/ RandAffineCall
    \/ Rand2DElasticCall
    \/ Rand3DElasticCall

Spec == Init /\ [][Next]_vars

\* the orchestrators of SpecPair: the transform branch is taken on few, on
\* some and on all calls, and the ranges move the grid
PairProbChoices == {10, 50, 100}

PairRanges == <<PSeq(<<Some(4)>>), PNone, PSeq(<<Some(4), Some(4)>>), PSeq(<<Some(1)>>)>>

\* the instance of one kind and probability whose draw sources, all unseeded,
\* are in state R
Built(kind, p, R) ==
    CASE kind = "RandAffine" ->
             RandAffine(p, PairRanges[1], PairRanges[2], PairRanges[3], PairRanges[4],
                        "zeros", TRUE, R, R)
      [] kind = "Rand2DElastic" ->
             Rand2DElastic(<<2, 2>>, <<1, 3>>, p, PairRanges[1], PairRanges[2], PairRanges[3],
                           PairRanges[4], "zeros", FALSE, R, R, R)
      [] kind = "Rand3DElastic" ->
             Rand3DElastic(<<1, 3>>, <<1, 4>>, p, PairRanges[1], PairRanges[2], PairRanges[3],
                           PairRanges[4], "zeros", FALSE, R, R)

\* obj after one call on each input of its kind, made before any seeding
Used(obj) ==
    CASE obj.kind = "RandAffine" ->
             RandAffine__call__(
                 RandAffine__call__(obj, Image(<<2, 2>>), <<2, 2>>, "nearest").self,
                 Image(<<2, 2>>), <<1, 2>>, "bilinear").self
      [] obj.kind = "Rand2DElastic" ->
             Rand2DElastic__call__(
                 Rand2DElastic__call__(obj, Image(<<2, 2>>), <<2, 2>>, "nearest").self,
                 Image(<<2, 2>>), <<1, 2>>, "bilinear").self
      [] obj.kind = "Rand3DElastic" ->
             Rand3DElastic__call__(
                 Rand3DElastic__call__(obj, Image(<<2, 2, 2>>), <<2, 1, 2>>, "nearest").self,
                 Image(<<2, 2, 2>>), <<1, 1, 2>>, "bilinear").self

\* two instances of one transform, built with the same configuration: the
\* first is new, the second has been in use, and their unseeded draw sources
\* started in different states
InitPair ==
    /\ \E kind \in {"RandAffine", "Rand2DElastic", "Rand3DElastic"}, p \in PairProbChoices :
          inst = <<Built(kind, p, RandomState(0)), Used(Built(kind, p, RandomState(1)))>>
    /\ seeded = <<None, None>>
    /\ hist = <<<<>>, <<>>>>
    /\ last = NotCalled
    /\ ag = None
    /\ agRes = NotCalled
    /\ rag = None
    /\ ragRes = NotCalled
    /\ rdg = None
    /\ rdgRes = NotCalled
    /\ rsp = None
    /\ rspGrid = None
    /\ rspRes = NotCalled
    /\ af = None
    /\ afRes = NotCalled
    /\ sc = None
    /\ scRes = NotCalled

\* the two instances are seeded, once each, and called from then on
PairRandAffineSetRandomState ==
    \E i \in DOMAIN inst : seeded[i] = None /\ RandAffineSetRandomStateOf(i)

PairRand2DElasticSetRandomState ==
    \E i \in DOMAIN inst : seeded[i] = None /\ Rand2DElasticSetRandomStateOf(i)

PairRand3DElasticSetRandomState ==
    \E i \in DOMAIN inst : seeded[i] = None /\ Rand3DElasticSetRandomStateOf(i)

PairRandAffineCall ==
    \E i \in DOMAIN inst : seeded[i] # None /\ RandAffineCallOf(i)

PairRand2DElasticCall ==
    \E i \in DOMAIN inst : seeded[i] # None /\ Rand2DElasticCallOf(i)

PairRand3DElasticCall ==
    \E i \in DOMAIN inst : seeded[i] # None /\ Rand3DElasticCallOf(i)

NextPair ==
    \/ PairRandAffineSetRandomState
    \/ PairRand2DElasticSetRandomState
    \/ PairRand3DElasticSetRandomState
    \/ PairRandAffineCall
    \/ PairRand2DElasticCall
    \/ PairRand3DElasticCall

SpecPair == InitPair /\ [][NextPair]_vars

-----------------------------------------------------------------------------
(* Claims about the orchestrators, checked under Spec *)

\* the instance the last call was made on, as that call left it
Callee == inst[last.id]

\* the events of a log that one object made
EventsBy(log, by) == SelectSeq(log, LAMBDA e : e.by = by)

\* the draws among the events of a log: its entries other than the steps
DrawsIn(log) ==
    SelectSeq(log, LAMBDA e : e.what \notin {"randomize", "AffineGrid", "create_grid",
                                              "interpolate", "resample"})

WhatsOf(log) == [i \in 1..Len(log) |-> log[i].what]

\* C1: a RandAffine, Rand2DElastic or Rand3DElastic built with prob=0 hands
\* the resampler the identity grid of create_grid(spatial_size) on every
\* call, whatever the ranges, and the call does not raise.
C1_ProbZeroIsIdentity ==
    (last.called /\ Callee.prob = 0)
        => /\ last.raised = "none"
           /\ last.grid = create_grid(last.spatial_size)
           /\ ~Callee.do_transform

\* C1 witness: the second call in a row of a Rand3DElastic with prob=0 and
\* ranges that would move the grid
C1_Witness ==
    /\ last.called
    /\ Callee.prob = 0
    /\ Callee.kind = "Rand3DElastic"
    /\ Callee.rand_affine_grid.rotate_range = <<Some(4)>>
    /\ Len(hist[last.id]) = 2
    /\ last.grid = create_grid(last.spatial_size)

\* C3: every Rand3DElastic call draws from the object's own source in the
\* order do-transform, offset field (only when the decision is true),
\* magnitude, sigma; magnitude and sigma are drawn also when the decision is
\* false.
C3_Rand3DElasticDrawOrder ==
    (last.called /\ Callee.kind = "Rand3DElastic")
        => LET own == DrawsIn(EventsBy(last.log, "Rand3DElastic"))
               n == 3 * NumPoints(last.spatial_size)
               total == IF Callee.do_transform THEN n + 3 ELSE 3
               st == <<last.before.R>> \o Stream(last.before.R, total)
           IN  /\ WhatsOf(own) =
                     IF Callee.do_transform
                     THEN <<"do_transform", "rand_offset", "magnitude", "sigma">>
                     ELSE <<"do_transform", "magnitude", "sigma">>
               /\ own[1].value = st[2]
               /\ Callee.do_transform = DoTransform(st[2], Callee.prob)
               /\ Callee.magnitude = Uniform(st[total - 1], Callee.magnitude_range[1],
                                             Callee.magnitude_range[2]).value
               /\ Callee.sigma = Uniform(st[total], Callee.sigma_range[1],
                                         Callee.sigma_range[2]).value
               /\ own[Len(own) - 1].value = Callee.magnitude
               /\ own[Len(own)].value = Callee.sigma
               /\ Callee.R = st[total + 1]

\* C3 witness: a call whose decision was false has drawn a new sigma and has
\* left the offset field alone
C3_Witness ==
    /\ last.called
    /\ Callee.kind = "Rand3DElastic"
    /\ ~Callee.do_transform
    /\ Callee.prob = 10
    /\ Callee.sigma # last.before.sigma
    /\ Callee.magnitude # last.before.magnitude
    /\ Callee.rand_offset = last.before.rand_offset
    /\ Len(DrawsIn(EventsBy(last.log, "Rand3DElastic"))) = 3

\* C4: every RandAffine call draws the decision once, from RandAffine's own
\* source and before any affine parameter is sampled; when the decision is
\* false the grid is create_grid(spatial_size), RandAffineGrid.randomize is
\* not run, and the RandAffineGrid's draw source and parameters are as they
\* were before the call.
C4_RandAffineDecisionFirst ==
    (last.called /\ Callee.kind = "RandAffine")
        => /\ last.log[1] = Event("RandAffine", "do_transform", 0, Advance(last.before.R))
           /\ PlacesOf(last.log, "do_transform") = {1}
           /\ Callee.R = Advance(last.before.R)
           /\ Callee.do_transform = DoTransform(Advance(last.before.R), Callee.prob)
           /\ Callee.do_transform
                 => /\ PlacesOf(last.log, "randomize") = {2}
                    /\ Callee.rand_affine_grid
                          = RandAffineGrid_randomize(last.before.rand_affine_grid).self
           /\ ~Callee.do_transform
                 => /\ last.grid = create_grid(last.spatial_size)
                    /\ EventsBy(last.log, "RandAffineGrid") = <<>>
                    /\ Callee.rand_affine_grid = last.before.rand_affine_grid

\* C4 witness: a call whose decision was false, on a RandAffine whose
\* RandAffineGrid holds the parameters of an earlier call
C4_Witness ==
    /\ last.called
    /\ Callee.kind = "RandAffine"
    /\ ~Callee.do_transform
    /\ Callee.prob > 0
    /\ Callee.rand_affine_grid.translate_params.kind = "seq"
    /\ Len(Callee.rand_affine_grid.translate_params.v) = 2
    /\ Callee.rand_affine_grid = last.before.rand_affine_grid

\* the places in a log of the events one object made
PlacesBy(log, by) == {i \in 1..Len(log) : log[i].by = by}

\* every place of P comes before every place of Q
AllBefore(P, Q) == \A i \in P : \A j \in Q : i < j

\* C16: every Rand2DElastic call draws the decision first.  When it is true
\* RandDeformGrid builds the deformation field, then RandAffineGrid is applied
\* to that field, then the grid is upsampled to the target size, then the
\* image is resampled.  When it is false the identity grid of create_grid is
\* resampled and neither RandDeformGrid nor RandAffineGrid draws anything.
C16_Rand2DElasticStepOrder ==
    (last.called /\ Callee.kind = "Rand2DElastic")
        => /\ last.log[1] = Event("Rand2DElastic", "do_transform", 0, Advance(last.before.R))
           /\ PlacesOf(last.log, "do_transform") = {1}
           /\ Callee.do_transform = DoTransform(Advance(last.before.R), Callee.prob)
           /\ PlacesOf(last.log, "resample") = {Len(last.log)}
           /\ Callee.do_transform
                 => /\ PlacesBy(last.log, "RandDeformGrid") # {}
                    /\ PlacesBy(last.log, "RandAffineGrid") # {}
                    /\ AllBefore({1}, PlacesBy(last.log, "RandDeformGrid"))
                    /\ AllBefore(PlacesBy(last.log, "RandDeformGrid"),
                                 PlacesBy(last.log, "RandAffineGrid"))
                    /\ AllBefore(PlacesBy(last.log, "RandAffineGrid"),
                                 PlacesOf(last.log, "interpolate"))
                    /\ PlacesOf(last.log, "interpolate") = {Len(last.log) - 1}
                    /\ last.grid
                          = Interpolate(
                                RandAffineGrid__call__(
                                    last.before.rand_affine_grid, None,
                                    Some(RandDeformGrid__call__(last.before.deform_grid,
                                                                last.spatial_size).grid)
                                ).ret.grid[1],
                                last.spatial_size)
           /\ ~Callee.do_transform
                 => /\ last.grid = create_grid(last.spatial_size)
                    /\ PlacesBy(last.log, "RandDeformGrid") = {}
                    /\ PlacesBy(last.log, "RandAffineGrid") = {}
                    /\ PlacesOf(last.log, "interpolate") = {}
                    /\ Callee.deform_grid = last.before.deform_grid
                    /\ Callee.rand_affine_grid = last.before.rand_affine_grid

\* C16 witness: a second call that took the transform branch; both nested
\* objects drew again, and the affine moved the deformed grid
C16_Witness ==
    /\ last.called
    /\ Callee.kind = "Rand2DElastic"
    /\ Callee.do_transform
    /\ Len(hist[last.id]) = 2
    /\ last.before.deform_grid.random_offset # <<>>
    /\ Callee.deform_grid.random_offset # last.before.deform_grid.random_offset
    /\ DrawsIn(EventsBy(last.log, "RandAffineGrid")) # <<>>
    /\ last.grid # Interpolate(RandDeformGrid__call__(last.before.deform_grid,
                                                      last.spatial_size).grid,
                               last.spatial_size)

-----------------------------------------------------------------------------
(* Claims about two instances, checked under SpecPair *)

\* the draw sources of an orchestrator: its own and those of the randomized
\* components it owns
Sources(obj) ==
    <<obj.R, obj.rand_affine_grid.R>>
        \o (IF obj.kind = "Rand2DElastic" THEN <<obj.deform_grid.R>> ELSE <<>>)

\* what call k of instance i was given
GivenTo(i, k) == <<hist[i][k].img, hist[i][k].spatial_size, hist[i][k].mode>>

\* instances 1 and 2 were given the same seed, and the same inputs in their
\* first k calls since
SameRun(k) ==
    /\ seeded[1] # None
    /\ seeded[1] = seeded[2]
    /\ k <= Len(hist[1])
    /\ k <= Len(hist[2])
    /\ \A j \in 1..k : GivenTo(1, j) = GivenTo(2, j)

\* C2: two instances of one transform with the same configuration and the
\* same seed hand the resampler the same image, grid and mode on the k-th
\* call, for every k, when given the same inputs; set_random_state leaves
\* every draw source of the orchestrator, nested ones included, in the state
\* of the seed, and the sources of the two instances stay in step.
C2_SameSeedSameOutputs ==
    /\ \A i \in DOMAIN inst :
          (seeded[i] # None /\ hist[i] = <<>>)
              => \A n \in DOMAIN Sources(inst[i]) :
                    Sources(inst[i])[n] = RandomState(seeded[i][1])
    /\ \A k \in 1..MaxCalls :
          SameRun(k) => hist[1][k].resampled = hist[2][k].resampled
    /\ \A k \in 0..MaxCalls :
          (SameRun(k) /\ Len(hist[1]) = k /\ Len(hist[2]) = k)
              => Sources(inst[1]) = Sources(inst[2])

\* C2 witness: both instances were seeded alike and called twice with the
\* same inputs, and the second call took the transform branch
C2_Witness ==
    /\ inst[1].kind = "Rand3DElastic"
    /\ SameRun(2)
    /\ hist[1][2].resampled = hist[2][2].resampled
    /\ hist[1][2].resampled[2] # create_grid(hist[1][2].spatial_size)
    /\ inst[1].do_transform


-----------------------------------------------------------------------------
(* Resample.__call__ *)

\* An array whose entries need not be multiples of 1/2: the entry of row c at
\* position n is data[c][n] / (2 * den[c]).  The grid Resample works on is
\* held this way, since it rescales rows by 2 / (dim - 1).
Rational(grid) ==
    [shape |-> grid.shape,
     tensor |-> grid.tensor,
     data |-> grid.data,
     den |-> [c \in 1..Len(grid.data) |-> 1]]

\* "grid[i] = 2. * grid[i] / (dim - 1.)", written into the grid itself
ScaledRow(grid, i, dim) ==
    [grid EXCEPT !.data[i] = [n \in 1..Len(grid.data[i]) |-> 2 * grid.data[i][n]],
                 !.den[i] = grid.den[i] * (dim - 1)]

RECURSIVE ScaleRows(_, _, _)
\* "for i, dim in enumerate(img.shape[1:])" from the i-th spatial axis on:
\* a grid with fewer rows than the image has spatial axes stops the loop
\* with an IndexError, the rows before it already rewritten
ScaleRows(grid, dims, i) ==
    IF i > Len(dims) THEN [raised |-> "none", grid |-> grid]
    ELSE IF i > Len(grid.data) THEN [raised |-> "IndexError", grid |-> grid]
    ELSE ScaleRows(ScaledRow(grid, i, dims[i]), dims, i + 1)

\* the quotient a / b of two integers, b # 0, with a positive denominator
Frac(a, b) == IF b < 0 THEN [num |-> -a, den |-> -b] ELSE [num |-> a, den |-> b]

\* "grid = grid[:-1] / grid[-1:]": every row but the last, divided entry by
\* entry by the last
Dehomogenized(grid) ==
    [c \in 1..(Len(grid.data) - 1) |->
        [n \in 1..Len(grid.data[c]) |->
            Frac(grid.data[c][n] * grid.den[Len(grid.data)],
                 grid.den[c] * grid.data[Len(grid.data)][n])]]

\* "grid = grid[range(img.ndim - 2, -1, -1)]": the rows D-1, ..., 0 of the
\* quotient, D being the image's spatial rank; rows from D on are left out
ReversedRows(q, D) == [k \in 1..D |-> q[D + 1 - k]]

\* grid_sample, align_corners=False: the coordinate g in [-1, 1] along an
\* axis of extent d is the pixel ((g + 1) * d - 1) / 2
Unnormalize(g, d) == [num |-> g.num * d + g.den * (d - 1), den |-> 2 * g.den]

\* padding_mode='border': the pixel coordinate clipped to [0, d - 1]
Clip(p, d) ==
    IF p.num < 0 THEN [num |-> 0, den |-> p.den]
    ELSE IF p.num > (d - 1) * p.den THEN [num |-> (d - 1) * p.den, den |-> p.den]
    ELSE p

\* |p + 1/2|, in units of 1 / p.den (p.den is even)
PastLowEdge(p) ==
    IF p.num + (p.den \div 2) < 0 THEN -(p.num + (p.den \div 2)) ELSE p.num + (p.den \div 2)

\* padding_mode='reflection': the pixel coordinate reflected at -1/2 and at
\* d - 1/2 until it lies between them
Reflect(p, d) ==
    [num |-> IF (PastLowEdge(p) \div (d * p.den)) % 2 = 0
             THEN (PastLowEdge(p) % (d * p.den)) - (p.den \div 2)
             ELSE d * p.den - (PastLowEdge(p) % (d * p.den)) - (p.den \div 2),
     den |-> p.den]

\* the pixel coordinate grid_sample reads at, by padding mode
compute_coordinates(p, d, padding_mode) ==
    CASE padding_mode = "zeros" -> p
      [] padding_mode = "border" -> Clip(p, d)
      [] padding_mode = "reflection" -> Clip(Reflect(p, d), d)

Floor(p) == p.num \div p.den

\* (p - floor(p)) * p.den
Rem(p) == p.num % p.den

\* mode='nearest': the nearest index, a tie going to the even one
\* (std::nearbyint)
RoundHalfEven(p) ==
    IF 2 * Rem(p) < p.den THEN Floor(p)
    ELSE IF 2 * Rem(p) > p.den THEN Floor(p) + 1
    ELSE IF Floor(p) % 2 = 0 THEN Floor(p)
    ELSE Floor(p) + 1

\* the image entry of channel ch at the multi-index idx (from 0), or 0 when
\* idx lies outside the image
Within(img, ch, idx) ==
    IF \A a \in 1..Len(img.shape) : idx[a] >= 0 /\ idx[a] < img.shape[a]
    THEN img.data[ch][FlatIndex(img.shape, idx, 1)]
    ELSE 0

RECURSIVE Blend(_, _, _, _, _)
\* the two corners along axis a, p being the pixel coordinate along it
BlendAlong(img, ch, P, idx, a, p) ==
    (p.den - Rem(p)) * Blend(img, ch, P, Append(idx, Floor(p)), a + 1)
    + Rem(p) * Blend(img, ch, P, Append(idx, Floor(p) + 1), a + 1)

\* mode='bilinear': the sum over the corners around the pixel coordinates P
\* of weight * entry, the weights in units of 1 / (P[1].den * ... * P[D].den);
\* idx holds the corner's indices along the axes before a
Blend(img, ch, P, idx, a) ==
    IF a > Len(img.shape) THEN Within(img, ch, idx)
    ELSE BlendAlong(img, ch, P, idx, a, P[a])

RECURSIVE DenProd(_, _)
DenProd(P, a) == IF a > Len(P) THEN 1 ELSE P[a].den * DenProd(P, a + 1)

\* the output entry num / den of one channel at pixel coordinates P
SampleAt(img, ch, P, mode) ==
    IF mode = "nearest"
    THEN [num |-> Within(img, ch, [a \in 1..Len(P) |-> RoundHalfEven(P[a])]), den |-> 1]
    ELSE [num |-> Blend(img, ch, P, <<>>, 1), den |-> DenProd(P, 1)]

\* torch.nn.functional.grid_sample(img[None], grid[None], mode, padding_mode,
\* align_corners=False)[0], g being the grid before the permute: g[k][n] is
\* the k-th coordinate at the n-th output position, and the k-th coordinate
\* runs along the image's axis D + 1 - k (x along the last axis)
grid_sample(img, g, shape, mode, padding_mode) ==
    [shape |-> shape,
     data |-> [ch \in 1..Len(img.data) |->
                 [n \in 1..NumPoints(shape) |->
                     SampleAt(img, ch,
                              [a \in 1..Len(img.shape) |->
                                  compute_coordinates(
                                      Unnormalize(g[Len(img.shape) + 1 - a][n], img.shape[a]),
                                      img.shape[a], padding_mode)],
                              mode)]]]

\* Resample.__call__ from "grid = grid[:-1] / grid[-1:]" on, `scaled`
\* being the outcome of the loop before it.  Indexing the rows D-1, ..., 0 fails when
\* the quotient has fewer than D rows; grid_sample takes a 4-D or 5-D input
\* and a grid with as many dimensions.
ResampleSampled(self, img, mode, scaled) ==
    IF scaled.raised # "none"
    THEN [raised |-> scaled.raised, out |-> None, grid |-> scaled.grid]
    ELSE IF Len(img.shape) > Len(scaled.grid.data) - 1
    THEN [raised |-> "IndexError", out |-> None, grid |-> scaled.grid]
    ELSE IF Len(img.shape) \notin {2, 3} \/ Len(scaled.grid.shape) # Len(img.shape)
    THEN [raised |-> "RuntimeError", out |-> None, grid |-> scaled.grid]
    ELSE [raised |-> "none",
          out |-> Some([tensor |-> self.as_tensor_output] @@
                       grid_sample(img,
                                   ReversedRows(Dehomogenized(scaled.grid), Len(img.shape)),
                                   scaled.grid.shape, mode, self.padding_mode)),
          grid |-> scaled.grid]

\* the grid object the caller holds after a call that worked on `worked`: a
\* tensor is used as it is and so holds what the call wrote; an array is
\* copied by torch.tensor(grid) and keeps its entries
CallerGrid(grid, worked) == IF grid.tensor THEN worked ELSE grid

\* Resample.__call__(img, grid, mode): [raised, out, grid], out being None
\* when it raised and grid the caller's grid object after the call
Resample__call__(self, img, grid, mode) ==
    [ResampleSampled(self, img, mode, ScaleRows(grid, img.shape, 1))
        EXCEPT !.grid = CallerGrid(grid, @)]


-----------------------------------------------------------------------------
(* Specification SpecRS: Resample.__call__, repeated on one grid object *)

\* the spatial shapes of the 2-D and 3-D images: extents from 2 on, an
\* extent of 1 making "dim - 1." zero
ImageShapes ==
    [1..2 -> 2..(MaxDim + 1)]
    \cup {<<a, b, b>> : a \in 2..(MaxDim + 1), b \in 2..(MaxDim + 1)}

\* the images: 2-D and 3-D ones, and one each of spatial rank 1 and 4
RsImages == {Image(sh) : sh \in ImageShapes \cup {<<2>>, <<2, 2, 2, 2>>}}

\* grid with one more coordinate row, all zero, before its homogeneous row
WithExtraRow(grid) ==
    [grid EXCEPT !.data = [c \in 1..(Len(grid.data) + 1) |->
                              IF c < Len(grid.data) THEN grid.data[c]
                              ELSE IF c = Len(grid.data)
                                   THEN [n \in 1..Len(grid.data[1]) |-> 0]
                                   ELSE grid.data[Len(grid.data)]]]

\* grid without its first coordinate row
WithoutFirstRow(grid) ==
    [grid EXCEPT !.data = [c \in 1..(Len(grid.data) - 1) |-> grid.data[c + 1]]]

\* the grids a caller holds: identity grids as arrays and as tensors, and
\* 2-D grids with a row too many or a row too few
RsGrids ==
    {Rational([create_grid(sh) EXCEPT !.tensor = t]) :
        sh \in ImageShapes \cup {<<2>>, <<2, 2, 2, 2>>}, t \in BOOLEAN}
    \cup {Rational(WithExtraRow([create_grid(sh) EXCEPT !.tensor = TRUE])) :
             sh \in [1..2 -> 2..(MaxDim + 1)]}
    \cup {Rational(WithoutFirstRow(create_grid(sh))) : sh \in [1..2 -> 2..(MaxDim + 1)]}

InitRS ==
    /\ rsp \in {Resample(pm, o) : pm \in {"zeros", "border", "reflection"}, o \in BOOLEAN}
    /\ rspGrid \in RsGrids
    /\ rspRes = [called |-> FALSE, count |-> 0, calls |-> <<>>]
    /\ ag = None
    /\ agRes = NotCalled
    /\ rag = None
    /\ ragRes = NotCalled
    /\ inst = <<>>
    /\ seeded = <<>>
    /\ hist = <<>>
    /\ last = NotCalled
    /\ rdg = None
    /\ rdgRes = NotCalled
    /\ af = None
    /\ afRes = NotCalled
    /\ sc = None
    /\ scRes = NotCalled

\* the bookkeeping of a call with outcome c; rspGrid becomes the grid object
\* as the call left it
Resampled(c, img, mode) ==
    /\ rspGrid' = c.grid
    /\ rspRes' = [called |-> TRUE,
                  count |-> rspRes.count + 1,
                  img |-> img,
                  mode |-> mode,
                  calls |-> Append(rspRes.calls,
                                   [given |-> rspGrid, raised |-> c.raised, out |-> c.out])]
    /\ UNCHANGED <<rsp, ag, agRes, rag, ragRes, inst, seeded, hist, last,
                   rdg, rdgRes, af, afRes, sc, scRes>>

\* Resample.__call__(img, rspGrid, mode); a later call is given the image
\* and mode of the first
ResampleCall ==
    /\ rspRes.count < MaxCalls
    /\ \E img \in RsImages, mode \in {"nearest", "bilinear"} :
          /\ rspRes.called => (img = rspRes.img /\ mode = rspRes.mode)
          /\ Resampled(Resample__call__(rsp, img, rspGrid, mode), img, mode)

NextRS == ResampleCall

SpecRS == InitRS /\ [][NextRS]_vars

-----------------------------------------------------------------------------
(* Claims about Resample, checked under SpecRS *)

\* the output `out` holds the image's entries, position by position
SameAsImage(out, img) ==
    /\ out.shape = img.shape
    /\ \A ch \in 1..Len(img.data) :
          \A n \in 1..NumPoints(img.shape) :
              out.data[ch][n].num = img.data[ch][n] * out.data[ch][n].den

\* the k-th call was given the identity grid of the image's size
GivenIdentityGrid(k) ==
    rspRes.calls[k].given
        = Rational([create_grid(rspRes.img.shape)
                       EXCEPT !.tensor = rspRes.calls[k].given.tensor])

\* C11: Resample applied to a 2-D or 3-D image with the identity grid of the
\* image's spatial size and mode 'nearest' returns the image unchanged at
\* every position, the first and the last index along each axis included.
C11_IdentityGridNearestIsIdentity ==
    \A k \in 1..Len(rspRes.calls) :
        (/\ rspRes.mode = "nearest"
         /\ Len(rspRes.img.shape) \in {2, 3}
         /\ GivenIdentityGrid(k))
        => /\ rspRes.calls[k].raised = "none"
           /\ SameAsImage(rspRes.calls[k].out[1], rspRes.img)


\* C14: Resample.__call__ raises on every input whose grid has another
\* leading-axis length than the image's spatial rank plus one, and on every
\* image whose spatial rank is neither 2 nor 3; it never returns an output
\* computed from some of the grid's rows only.
C14_RankMismatchRejected ==
    \A k \in 1..Len(rspRes.calls) :
        (\/ Len(rspRes.calls[k].given.data) # Len(rspRes.img.shape) + 1
         \/ Len(rspRes.img.shape) \notin {2, 3})
        => rspRes.calls[k].raised # "none"

\* the grid object as the k-th call left it
GridAfter(k) ==
    IF k < Len(rspRes.calls) THEN rspRes.calls[k + 1].given ELSE rspGrid

\* two grids hold the same coordinate values
SameValues(g, h) ==
    /\ g.shape = h.shape
    /\ Len(g.data) = Len(h.data)
    /\ \A c \in 1..Len(g.data) :
          \A n \in 1..Len(g.data[c]) :
              g.data[c][n] * h.den[c] = h.data[c][n] * g.den[c]

\* two calls ended alike: with the same error, or with the same output
SameResult(x, y) ==
    /\ x.raised = y.raised
    /\ x.raised = "none" =>
          /\ x.out[1].shape = y.out[1].shape
          /\ \A ch \in 1..Len(x.out[1].data) :
                \A n \in 1..Len(x.out[1].data[ch]) :
                    x.out[1].data[ch][n].num * y.out[1].data[ch][n].den
                        = y.out[1].data[ch][n].num * x.out[1].data[ch][n].den

\* C17: Resample.__call__ leaves the grid object it is given unchanged, be it
\* an array or a tensor: after the call the object holds the coordinate
\* values it held before, so that resampling the same grid object again
\* against the same image gives the same result.
C17_GridArgumentUnchanged ==
    /\ \A k \in 1..Len(rspRes.calls) : SameValues(rspRes.calls[k].given, GridAfter(k))
    /\ \A k \in 2..Len(rspRes.calls) : SameResult(rspRes.calls[1], rspRes.calls[k])

-----------------------------------------------------------------------------
(* Affine *)

\* Affine.__init__: the AffineGrid is built with as_tensor_output=True
Affine(rotate_params, shear_params, translate_params, scale_params, padding_mode, as_tensor_output) ==
    [affine_grid |-> AffineGrid(rotate_params, shear_params, translate_params,
                                scale_params, TRUE),
     resampler |-> Resample(padding_mode, as_tensor_output)]

\* "return self.resampler(img, grid, mode)", g being the outcome of
\* self.affine_grid(spatial_size)
AffineResampled(self, img, mode, g) ==
    IF g.raised # "none"
    THEN [raised |-> g.raised, out |-> None, grid |-> None]
    ELSE Resample__call__(self.resampler, img, Rational(g.grid[1]), mode)

\* Affine.__call__(img, spatial_size, mode): [raised, out, grid], grid being
\* the grid the resampler was given, as the resampler left it
Affine__call__(self, img, spatial_size, mode) ==
    AffineResampled(self, img, mode,
                    AffineGrid__call__(self.affine_grid, Some(spatial_size), None))

-----------------------------------------------------------------------------
(* Specification SpecAF: Affine.__call__ on every input *)

\* the spatial shapes of the images given to Affine, and its output sizes
AffineShapes ==
    [1..2 -> 2..(MaxDim + 1)] \cup {<<4, 4>>, <<2, 2, 2>>, <<MaxDim + 1, 2, 2>>}

InitAF ==
    /\ af \in {Affine(r, PNone, t, z, pm, o) :
                  r \in {PNone, PScalar(0), PScalar(1)},
                  t \in {PNone, PSeq(<<1, 2>>)},
                  z \in {PNone, PSeq(<<>>)},
                  pm \in {"zeros", "border", "reflection"},
                  o \in BOOLEAN}
    /\ afRes = NotCalled
    /\ ag = None
    /\ agRes = NotCalled
    /\ rag = None
    /\ ragRes = NotCalled
    /\ inst = <<>>
    /\ seeded = <<>>
    /\ hist = <<>>
    /\ last = NotCalled
    /\ rdg = None
    /\ rdgRes = NotCalled
    /\ rsp = None
    /\ rspGrid = None
    /\ rspRes = NotCalled
    /\ sc = None
    /\ scRes = NotCalled

\* Affine.__call__(img, spatial_size, mode), the output size being of the
\* image's spatial rank
AffineCall ==
    /\ ~afRes.called
    /\ \E sh \in AffineShapes, spatial_size \in AffineShapes, mode \in {"bilinear", "nearest"} :
          /\ Len(sh) = Len(spatial_size)
          /\ afRes' = [called |-> TRUE,
                       img |-> Image(sh),
                       spatial_size |-> spatial_size,
                       mode |-> mode,
                       ret |-> Affine__call__(af, Image(sh), spatial_size, mode)]
    /\ UNCHANGED <<af, ag, agRes, rag, ragRes, inst, seeded, hist, last,
                   rdg, rdgRes, rsp, rspGrid, rspRes, sc, scRes>>

NextAF == AffineCall

SpecAF == InitAF /\ [][NextAF]_vars

-----------------------------------------------------------------------------
(* Claims about Affine, checked under SpecAF *)

\* no parameter group of the Affine's AffineGrid has an effect on the matrix
NoEffectiveParameters(self) ==
    /\ ~Truthy(self.affine_grid.rotate_params)
    /\ ~Truthy(self.affine_grid.shear_params)
    /\ ~Truthy(self.affine_grid.translate_params)
    /\ ~Truthy(self.affine_grid.scale_params)

\* C12: an Affine with no effective parameters (rotate_params=0 and nothing
\* else among them), called with an output size equal to the image's spatial
\* size, returns the image unchanged, in the default mode as in the other;
\* the image of shape (1, 4, 4) with output size (4, 4) is one such call.
C12_AffineWithoutParametersIsIdentity ==
    (/\ afRes.called
     /\ NoEffectiveParameters(af)
     /\ afRes.spatial_size = afRes.img.shape)
    => /\ afRes.ret.raised = "none"
       /\ SameAsImage(afRes.ret.out[1], afRes.img)

\* the scenario of C12 alone: rotate_params=0, the image of shape (1, 4, 4),
\* the output size (4, 4), the default mode
C12_Scenario ==
    (/\ afRes.called
     /\ af.affine_grid = AffineGrid(PScalar(0), PNone, PNone, PNone, TRUE)
     /\ afRes.img = Image(<<4, 4>>)
     /\ afRes.spatial_size = <<4, 4>>
     /\ afRes.mode = "bilinear")
    => /\ afRes.ret.raised = "none"
       /\ SameAsImage(afRes.ret.out[1], afRes.img)


-----------------------------------------------------------------------------
(* Specification SpecRDG: repeated calls of one RandDeformGrid *)

InitRDG ==
    /\ rdg \in {RandDeformGrid(sp, m, o, R) :
                   sp \in {<<1, 1>>, <<2, 1>>, <<1, 1, 2>>},
                   m \in {<<0, 0>>, <<1, 3>>, <<0, 4>>},
                   o \in BOOLEAN,
                   R \in 0..(RngMod - 1)}
    /\ rdgRes = [called |-> FALSE, count |-> 0]
    /\ ag = None
    /\ agRes = NotCalled
    /\ rag = None
    /\ ragRes = NotCalled
    /\ inst = <<>>
    /\ seeded = <<>>
    /\ hist = <<>>
    /\ last = NotCalled
    /\ rsp = None
    /\ rspGrid = None
    /\ rspRes = NotCalled
    /\ af = None
    /\ afRes = NotCalled
    /\ sc = None
    /\ scRes = NotCalled

\* the bookkeeping of a call with outcome c
Deformed(c, spatial_size) ==
    /\ rdg' = c.self
    /\ rdgRes' = [called |-> TRUE,
                  count |-> rdgRes.count + 1,
                  spatial_size |-> spatial_size,
                  before |-> rdg,
                  grid |-> c.grid,
                  log |-> c.log]
    /\ UNCHANGED <<ag, agRes, rag, ragRes, inst, seeded, hist, last,
                   rsp, rspGrid, rspRes, af, afRes, sc, scRes>>

\* RandDeformGrid.__call__(spatial_size), the size being of the rank of the
\* spacing
RandDeformGridCall ==
    /\ rdgRes.count < MaxCalls
    /\ \E spatial_size \in [1..2 -> 1..MaxDim] \cup {<<1, 1, 1>>, <<1, 1, MaxDim>>} :
          /\ Len(spatial_size) = Len(rdg.spacing)
          /\ Deformed(RandDeformGrid__call__(rdg, spatial_size), spatial_size)

NextRDG == RandDeformGridCall

SpecRDG == InitRDG /\ [][NextRDG]_vars

-----------------------------------------------------------------------------
(* Claims about RandDeformGrid, checked under SpecRDG *)

\* the control grid the last call started from
ControlGridOfCall == create_control_grid(rdgRes.spatial_size, rdg.spacing)

\* C13: every call of RandDeformGrid adds magnitude * offset_field to the
\* leading D rows of the control grid and leaves its last, homogeneous row as
\* create_control_grid returned it; with magnitude_range = (0, 0) the grid
\* returned is the unperturbed control grid, for every seed and every call.
C13_OnlyLeadingRowsPerturbed ==
    rdgRes.called =>
        /\ rdgRes.grid.shape = ControlGridOfCall.shape
        /\ rdgRes.grid.data[Len(rdgRes.spatial_size) + 1]
               = ControlGridOfCall.data[Len(rdgRes.spatial_size) + 1]
        /\ \A c \in 1..Len(rdgRes.spatial_size) :
              \A n \in 1..NumPoints(ControlGridOfCall.shape) :
                  rdgRes.grid.data[c][n]
                      = ControlGridOfCall.data[c][n]
                            + 2 * rdg.rand_mag * rdg.random_offset[c][n]
        /\ rdg.magnitude = <<0, 0>> => rdgRes.grid.data = ControlGridOfCall.data

\* a second call that moved the leading rows: its magnitude is not 0 and the
\* first coordinate row differs from the control grid's
C13_Witness ==
    /\ rdgRes.called
    /\ rdgRes.count = 2
    /\ rdg.rand_mag # 0
    /\ rdgRes.grid.data[1] # ControlGridOfCall.data[1]
    /\ rdg.random_offset # rdgRes.before.random_offset


-----------------------------------------------------------------------------
(* SpatialCrop *)

\* the number of values of np.uint16
UInt16 == 65536

\* "all(x > 0 for x in roi)"
AllPositive(roi) == \A a \in 1..Len(roi) : roi[a] > 0

\* "all(x >= 0 for x in roi)"
AllNonNegative(roi) == \A a \in 1..Len(roi) : roi[a] >= 0

\* the object a failed constructor leaves: none
NotBuilt(raised) == [raised |-> raised]

\* np.subtract(roi_center, np.floor_divide(roi_size, 2)) on np.uint16 arrays
Uint16Start(roi_center, roi_size) ==
    [a \in 1..Len(roi_center) |-> (roi_center[a] - (roi_size[a] \div 2)) % UInt16]

\* np.add(self.roi_start, roi_size) on np.uint16 arrays
Uint16End(roi_start, roi_size) ==
    [a \in 1..Len(roi_start) |-> (roi_start[a] + roi_size[a]) % UInt16]

\* the first branch of SpatialCrop.__init__: the ROI from its centre and size;
\* two lists of different lengths do not broadcast unless one has one entry,
\* and the model gives both the same length
SpatialCropFromCenter(roi_center, roi_size) ==
    IF ~(AllPositive(roi_center) /\ AllPositive(roi_size))
    THEN NotBuilt("AssertionError")
    ELSE [raised |-> "none",
          uint16 |-> TRUE,
          roi_start |-> Uint16Start(roi_center, roi_size),
          roi_end |-> Uint16End(Uint16Start(roi_center, roi_size), roi_size)]

\* the else branch of SpatialCrop.__init__: the ROI from its start and end,
\* kept as the lists they are
SpatialCropFromStart(roi_start, roi_end) ==
    IF roi_start = None \/ roi_end = None
    THEN NotBuilt("AssertionError")
    ELSE IF ~(AllNonNegative(roi_start[1]) /\ AllPositive(roi_end[1]))
    THEN NotBuilt("AssertionError")
    ELSE [raised |-> "none",
          uint16 |-> FALSE,
          roi_start |-> roi_start[1],
          roi_end |-> roi_end[1]]

\* SpatialCrop.__init__(roi_center, roi_size, roi_start, roi_end)
SpatialCrop(roi_center, roi_size, roi_start, roi_end) ==
    IF roi_center # None /\ roi_size # None
    THEN SpatialCropFromCenter(roi_center[1], roi_size[1])
    ELSE SpatialCropFromStart(roi_start, roi_end)

\* whether arrays of lengths m and n broadcast against each other
Broadcasts(m, n) == m = n \/ m = 1 \/ n = 1

\* the a-th entry of x broadcast to a longer array
Entry(x, a) == IF Len(x) = 1 THEN x[1] ELSE x[a]

\* "(np.subtract(x, y) >= 0).all()", x and y broadcasting.  np.subtract
\* of two np.uint16 arrays is taken modulo 2^16 and so is never negative;
\* with the image's shape, a tuple of Python ints, it is a signed difference
AllNotBelow(x, y, wraps) ==
    \A a \in 1..(IF Len(x) > Len(y) THEN Len(x) ELSE Len(y)) :
        IF wraps THEN (Entry(x, a) - Entry(y, a)) % UInt16 >= 0
        ELSE Entry(x, a) - Entry(y, a) >= 0

\* the length of x[lo:hi] for an axis of extent d and lo, hi >= 0
SliceLen(lo, hi, d) ==
    IF (IF hi < d THEN hi ELSE d) > (IF lo < d THEN lo ELSE d)
    THEN (IF hi < d THEN hi ELSE d) - (IF lo < d THEN lo ELSE d)
    ELSE 0

\* SpatialCrop.__call__ from its slicing on: the shape of the copy made, or
\* the error.  An index has one slice per ROI entry after the channel's, and
\* an image with fewer spatial axes cannot take it.
SpatialCropSliced(self, shape) ==
    IF Len(self.roi_start) \notin {1, 2, 3}
    THEN [raised |-> "ValueError", shape |-> None]
    ELSE IF Len(self.roi_start) > Len(shape)
    THEN [raised |-> "IndexError", shape |-> None]
    ELSE [raised |-> "none",
          shape |-> Some([a \in 1..Len(shape) |->
                            IF a <= Len(self.roi_start)
                            THEN SliceLen(self.roi_start[a], self.roi_end[a], shape[a])
                            ELSE shape[a]])]

\* SpatialCrop.__call__(img), img having the spatial shape `shape`:
\* [raised, shape], the spatial shape of the crop
SpatialCrop__call__(self, shape) ==
    IF ~Broadcasts(Len(shape), Len(self.roi_start))
    THEN [raised |-> "ValueError", shape |-> None]
    ELSE IF ~AllNotBelow(shape, self.roi_start, FALSE)
    THEN [raised |-> "AssertionError", shape |-> None]
    ELSE IF ~AllNotBelow(shape, self.roi_end, FALSE)
    THEN [raised |-> "AssertionError", shape |-> None]
    ELSE IF ~AllNotBelow(self.roi_end, self.roi_start, self.uint16)
    THEN [raised |-> "AssertionError", shape |-> None]
    ELSE SpatialCropSliced(self, shape)


-----------------------------------------------------------------------------
(* Specification SpecSC: SpatialCrop built from every ROI, called once *)

\* the lists of 1 and 2 entries over S, and those of 3 equal entries
RoiLists(S) == [1..1 -> S] \cup [1..2 -> S] \cup {<<v, v, v>> : v \in S}

\* the constructor's arguments (roi_center, roi_size, roi_start, roi_end): a
\* centre and a size of one length, among them ones whose start or end leaves
\* the range of np.uint16; a start and an end of one length, among them one
\* of 4 entries; or too few of them
RoiArgs ==
    {<<Some(c), Some(z), None, None>> :
        c \in RoiLists({0, 1, 2, (UInt16 \div 2) + 1}),
        z \in RoiLists({1, 2, 4, UInt16 - 1})}
    \cup {<<None, None, Some(b), Some(e)>> :
             b \in RoiLists({-1, 0, 1, 2}) \cup {<<0, 0, 0, 0>>},
             e \in RoiLists({0, 1, 2, 3}) \cup {<<1, 1, 1, 1>>}}
    \cup {<<Some(<<1>>), None, None, None>>,
          <<None, None, Some(<<0>>), None>>,
          <<Some(<<1>>), None, Some(<<0>>), Some(<<1>>)>>}

\* the spatial shapes of the images a SpatialCrop is called with
CropShapes ==
    [1..1 -> 1..(MaxDim + 2)] \cup [1..2 -> 1..(MaxDim + 2)]
    \cup {<<d, d, d>> : d \in 1..(MaxDim + 2)} \cup {<<1, 1, 1, 1>>}

InitSC ==
    /\ \E args \in RoiArgs :
          /\ args[1] # None /\ args[2] # None => Len(args[1][1]) = Len(args[2][1])
          /\ args[3] # None /\ args[4] # None => Len(args[3][1]) = Len(args[4][1])
          /\ sc = SpatialCrop(args[1], args[2], args[3], args[4])
          /\ scRes = [called |-> FALSE, args |-> args]
    /\ ag = None
    /\ agRes = NotCalled
    /\ rag = None
    /\ ragRes = NotCalled
    /\ inst = <<>>
    /\ seeded = <<>>
    /\ hist = <<>>
    /\ last = NotCalled
    /\ rdg = None
    /\ rdgRes = NotCalled
    /\ rsp = None
    /\ rspGrid = None
    /\ rspRes = NotCalled
    /\ af = None
    /\ afRes = NotCalled

\* SpatialCrop.__call__(img) on an object the constructor has built
SpatialCropCall ==
    /\ sc.raised = "none"
    /\ ~scRes.called
    /\ \E shape \in CropShapes :
          scRes' = [called |-> TRUE,
                    args |-> scRes.args,
                    shape |-> shape,
                    ret |-> SpatialCrop__call__(sc, shape)]
    /\ UNCHANGED <<sc, ag, agRes, rag, ragRes, inst, seeded, hist, last,
                   rdg, rdgRes, rsp, rspGrid, rspRes, af, afRes>>

NextSC == SpatialCropCall

SpecSC == InitSC /\ [][NextSC]_vars

-----------------------------------------------------------------------------
(* Claims about SpatialCrop, checked under SpecSC *)

\* the ROI asked for, in unbounded arithmetic: its start and its end
RoiStart ==
    IF scRes.args[1] # None /\ scRes.args[2] # None
    THEN [a \in 1..Len(scRes.args[1][1]) |->
             scRes.args[1][1][a] - (scRes.args[2][1][a] \div 2)]
    ELSE scRes.args[3][1]

RoiEnd ==
    IF scRes.args[1] # None /\ scRes.args[2] # None
    THEN [a \in 1..Len(scRes.args[1][1]) |-> RoiStart[a] + scRes.args[2][1][a]]
    ELSE scRes.args[4][1]

\* the ROI leaves the image along one of the axes they share
RoiLeavesImage ==
    \E a \in 1..Len(RoiStart) :
        /\ a <= Len(scRes.shape)
        /\ RoiStart[a] < 0 \/ RoiEnd[a] > scRes.shape[a]

\* C15: SpatialCrop.__call__ fails whenever the ROI extends past the image
\* along a spatial axis, for a ROI given by start and end and for one derived
\* from centre and size in 16-bit unsigned arithmetic; and whenever it
\* returns, the crop has the extent roi_end - roi_start on every axis of the
\* ROI.
C15_RoiOutsideImageFails ==
    scRes.called =>
        /\ RoiLeavesImage => scRes.ret.raised # "none"
        /\ scRes.ret.raised = "none" =>
              \A a \in 1..Len(sc.roi_start) :
                  scRes.ret.shape[1][a]
                      = IF sc.uint16 THEN (sc.roi_end[a] - sc.roi_start[a]) % UInt16
                        ELSE sc.roi_end[a] - sc.roi_start[a]

====
